---- MODULE Spec2Model ----
(***************************************************************************)
(* Data-Alchemist: the validation engine (DataValidator, lib/validators.ts) *)
(* as a state machine.  A JavaScript string is a sequence of one-character  *)
(* strings, so that split, trim, includes, parseInt and JSON.parse are      *)
(* computed character by character as the engine computes them.             *)
(***************************************************************************)
EXTENDS Integers, Sequences, FiniteSets

(***************************************************************************)
(* Bounds of the model.                                                     *)
(***************************************************************************)
\* The clock (Date.now) takes the values 0..MaxClock.
MaxClock == 1
\* validateAll is invoked at most MaxCalls times on one DataValidator.
MaxCalls == 2
\* Math.random returns one of the values 0..MaxSeed.
MaxSeed == 1
\* A collection holds at most MaxRows records.
MaxRows == 2
\* A collection whose records differ in their identifier only holds at most
\* MaxIdRows records.
MaxIdRows == 3

(***************************************************************************)
(* JavaScript strings.                                                      *)
(***************************************************************************)
Digits == <<"0", "1", "2", "3", "4", "5", "6", "7", "8", "9">>

UpperCase == <<"A", "B", "C", "D", "E", "F", "G", "H", "I", "J", "K", "L", "M",
               "N", "O", "P", "Q", "R", "S", "T", "U", "V", "W", "X", "Y", "Z">>

LowerCase == <<"a", "b", "c", "d", "e", "f", "g", "h", "i", "j", "k", "l", "m",
               "n", "o", "p", "q", "r", "s", "t", "u", "v", "w", "x", "y", "z">>

\* The characters String.prototype.trim, /\s/ and JSON.parse treat as white space.
WhiteSpace == {" "}

IsDigit(c) == \E i \in 1..10 : Digits[i] = c

DigitVal(c) == (CHOOSE i \in 1..10 : Digits[i] = c) - 1

\* String.prototype.toLowerCase, one character.
LowerChar(c) ==
    IF \E i \in 1..26 : UpperCase[i] = c
    THEN LowerCase[CHOOSE i \in 1..26 : UpperCase[i] = c]
    ELSE c

\* String.prototype.toLowerCase
toLowerCase(s) == [i \in 1..Len(s) |-> LowerChar(s[i])]

\* String.prototype.trim
trim(s) ==
    IF \A i \in 1..Len(s) : s[i] \in WhiteSpace
    THEN <<>>
    ELSE LET a == CHOOSE i \in 1..Len(s) :
                      s[i] \notin WhiteSpace /\ \A j \in 1..(i - 1) : s[j] \in WhiteSpace
             b == CHOOSE i \in 1..Len(s) :
                      s[i] \notin WhiteSpace /\ \A j \in (i + 1)..Len(s) : s[j] \in WhiteSpace
         IN  SubSeq(s, a, b)

\* String.prototype.includes
includes(s, sub) ==
    \E i \in 0..(Len(s) - Len(sub)) : SubSeq(s, i + 1, i + Len(sub)) = sub

\* String.prototype.startsWith / endsWith, for a one-character argument.
startsWith(s, c) == Len(s) > 0 /\ s[1] = c
endsWith(s, c) == Len(s) > 0 /\ s[Len(s)] = c

\* String.prototype.split, for a one-character separator: "".split(",") is [""].
RECURSIVE split(_, _)
split(s, c) ==
    IF \A i \in 1..Len(s) : s[i] # c
    THEN <<s>>
    ELSE LET i == CHOOSE k \in 1..Len(s) : s[k] = c /\ \A j \in 1..(k - 1) : s[j] # c
         IN  <<SubSeq(s, 1, i - 1)>> \o split(SubSeq(s, i + 1, Len(s)), c)

\* Array.prototype.map / filter for the callbacks the engine uses.
mapTrim(parts) == [i \in 1..Len(parts) |-> trim(parts[i])]
mapTrimLower(parts) == [i \in 1..Len(parts) |-> toLowerCase(trim(parts[i]))]
filterNonEmpty(parts) == SelectSeq(parts, LAMBDA p : p # <<>>)

\* Truthiness of a string: the empty string is falsy.
Truthy(s) == s # <<>>

\* The value of a run of decimal digits.
RECURSIVE DigitsValue(_)
DigitsValue(ds) ==
    IF ds = <<>> THEN 0
    ELSE 10 * DigitsValue(SubSeq(ds, 1, Len(ds) - 1)) + DigitVal(ds[Len(ds)])

\* The longest prefix of s made of digits.
DigitPrefix(s) ==
    IF \A i \in 1..Len(s) : IsDigit(s[i]) THEN s
    ELSE SubSeq(s, 1, (CHOOSE i \in 1..Len(s) :
                          ~IsDigit(s[i]) /\ \A j \in 1..(i - 1) : IsDigit(s[j])) - 1)

\* A JavaScript number is an integer or NaN.
Num(k) == [nan |-> FALSE, n |-> k]
NaN == [nan |-> TRUE, n |-> 0]
isNaN(v) == v.nan

\* parseInt(s) in radix 10: leading white space is skipped, an optional sign
\* is read, then the longest run of digits; what follows is ignored and no
\* digit at all gives NaN.  (No input of the model starts with 0x.)
parseIntDigits(negative, ds) ==
    IF ds = <<>> THEN NaN
    ELSE IF negative THEN Num(0 - DigitsValue(ds)) ELSE Num(DigitsValue(ds))

parseIntTrimmed(t) ==
    parseIntDigits(Len(t) > 0 /\ t[1] = "-",
                   DigitPrefix(IF Len(t) > 0 /\ t[1] \in {"-", "+"} THEN Tail(t) ELSE t))

parseInt(s) == parseIntTrimmed(trim(s))

\* /^\d+$/.test(s)
AllDigits(s) == Len(s) > 0 /\ \A i \in 1..Len(s) : IsDigit(s[i])

\* Number to string, as a template literal renders it.
RECURSIVE NatToString(_)
NatToString(n) ==
    IF n < 10 THEN <<Digits[n + 1]>>
    ELSE NatToString(n \div 10) \o <<Digits[(n % 10) + 1]>>

IntToString(k) ==
    IF k < 0 THEN <<"-">> \o NatToString(0 - k) ELSE NatToString(k)

NumToString(v) ==
    IF isNaN(v) THEN <<"N", "a", "N">> ELSE IntToString(v.n)

(***************************************************************************)
(* JSON.parse, on the texts the model feeds it: white space, integers,      *)
(* strings without escapes, the literals true, false and null, the empty    *)
(* object, the object of one member with a string value as JSON.stringify   *)
(* writes it, and one level of array brackets.  (No input holds a point, an *)
(* exponent, a backslash or nested brackets.)  The result is tagged:        *)
(* t = "throw" is a SyntaxError.                                            *)
(***************************************************************************)
JsonThrow == [t |-> "throw", v |-> <<>>]

\* A JSON integer: -?(0|[1-9][0-9]*)
IsJsonNat(body) == AllDigits(body) /\ (Len(body) > 1 => body[1] # "0")

IsJsonInt(s) == IsJsonNat(IF Len(s) > 0 /\ s[1] = "-" THEN Tail(s) ELSE s)

JsonIntValue(s) ==
    IF s[1] = "-" THEN 0 - DigitsValue(Tail(s)) ELSE DigitsValue(s)

\* A JSON string without escapes: a quote, characters other than quote and
\* backslash, a quote.
IsJsonString(s) ==
    /\ Len(s) >= 2 /\ s[1] = "\"" /\ s[Len(s)] = "\""
    /\ \A i \in 2..(Len(s) - 1) : s[i] \notin {"\"", "\\"}

\* "key":"value"
IsJsonMember(inner) ==
    \E k \in 1..Len(inner) :
        /\ inner[k] = ":"
        /\ IsJsonString(SubSeq(inner, 1, k - 1))
        /\ IsJsonString(SubSeq(inner, k + 1, Len(inner)))

\* A value that is no array: number, string, literal or object.
JsonScalarTrimmed(t) ==
    IF IsJsonInt(t) THEN [t |-> "num", v |-> JsonIntValue(t)]
    ELSE IF IsJsonString(t) THEN [t |-> "str", v |-> SubSeq(t, 2, Len(t) - 1)]
    ELSE IF Len(t) >= 2 /\ t[1] = "{" /\ t[Len(t)] = "}"
            /\ IsJsonMember(SubSeq(t, 2, Len(t) - 1))
         THEN [t |-> "obj", v |-> SubSeq(t, 2, Len(t) - 1)]
    ELSE IF t \in {<<"t", "r", "u", "e">>, <<"f", "a", "l", "s", "e">>,
                   <<"n", "u", "l", "l">>}
         THEN [t |-> "lit", v |-> t]
    ELSE IF Len(t) >= 2 /\ t[1] = "{" /\ t[Len(t)] = "}"
            /\ trim(SubSeq(t, 2, Len(t) - 1)) = <<>>
         THEN [t |-> "obj", v |-> <<>>]
    ELSE JsonThrow

JsonScalar(s) == JsonScalarTrimmed(trim(s))

\* The array of the parsed elements; one element that does not parse fails it.
JsonArrayOf(elems) ==
    IF \E i \in 1..Len(elems) : elems[i].t = "throw" THEN JsonThrow
    ELSE [t |-> "arr", v |-> elems]

JsonElements(toks) == JsonArrayOf([i \in 1..Len(toks) |-> JsonScalar(toks[i])])

\* The text between the brackets of an array.
JsonArrayBody(inner) ==
    IF trim(inner) = <<>> THEN [t |-> "arr", v |-> <<>>]
    ELSE JsonElements(split(inner, ","))

JSONparseTrimmed(t) ==
    IF Len(t) >= 2 /\ t[1] = "[" /\ t[Len(t)] = "]"
    THEN JsonArrayBody(SubSeq(t, 2, Len(t) - 1))
    ELSE JsonScalarTrimmed(t)

JSONparse(s) == JSONparseTrimmed(trim(s))

\* Array.isArray(x), and the callback typeof p === 'number' && p > 0.
isArray(x) == x.t = "arr"
IsPositiveNumber(e) == e.t = "num" /\ e.v > 0

(***************************************************************************)
(* Findings (ValidationError).  A message is its template, a constant text  *)
(* with the places {0}, {1} of its interpolations, and the interpolated     *)
(* strings.  The templates are the texts of the source with the double      *)
(* quotes around sample formats left out and its "less than or equal" sign  *)
(* written <=.                                                              *)
(***************************************************************************)
Msg(tpl, args) == [tpl |-> tpl, args |-> args]

\* message.slice(0, 10).replace(/\s/g, ''): every template starts with at
\* least ten constant characters, so the fragment is a function of the template.
MessageFragment(message) ==
    CASE message.tpl \in {"Duplicate ClientID: {0}", "Duplicate WorkerID: {0}",
                          "Duplicate TaskID: {0}"} -> "Duplicate"
      [] message.tpl = "Priority level must be between 1 and 5" -> "Priorityl"
      [] message.tpl = "Unknown task ID: {0}" -> "Unknownta"
      [] message.tpl = "Invalid JSON format - contains JSON characters but is malformed"
             -> "InvalidJS"
      [] message.tpl = "Non-JSON text detected - should be converted to valid JSON format"
             -> "Non-JSONt"
      [] message.tpl \in {"AvailableSlots must be an array format",
                          "AvailableSlots must contain only positive numbers"} -> "AvailableS"
      [] message.tpl = "Worker has more available slots than max load per phase" -> "Workerhas"
      [] message.tpl \in {"Comma-separated slots detected - should be JSON array format like [1,2,3]",
                          "Comma-separated phases detected: {0}. Consider using array format [{1}]"}
             -> "Comma-sepa"
      [] message.tpl = "Invalid AvailableSlots format - must be valid JSON array like [1,2,3]"
             -> "InvalidAv"
      [] message.tpl = "MaxLoadPerPhase must be at least 1" -> "MaxLoadPer"
      [] message.tpl = "QualificationLevel should be between 1 and 10" -> "Qualificat"
      [] message.tpl = "Duration must be at least 1" -> "Durationm"
      [] message.tpl = "MaxConcurrent must be at least 1" -> "MaxConcurr"
      [] message.tpl \in {"No worker has required skill: {0}",
                          "No worker available with skill: {0}"} -> "Noworker"
      [] message.tpl = "Invalid range values in brackets: [{0} - {1}]. Both values must be positive and start <= end"
             -> "Invalidra"
      [] message.tpl = "Invalid bracket range format: {0}. Use format [1-3] or [2 - 4]"
             -> "Invalidbr"
      [] message.tpl \in {"PreferredPhases array must contain positive numbers",
                          "PreferredPhases must be an array when using bracket notation"}
             -> "PreferredP"
      [] message.tpl = "Invalid array format in brackets: {0}" -> "Invalidar"
      [] message.tpl \in {"Invalid phase range: {0}. Expected format: 1-3",
                          "Invalid phase range format: {0}. Use format 1-3",
                          "Invalid phase number: {0}"} -> "Invalidph"
      [] message.tpl = "All phases must be positive numbers" -> "Allphases"
      [] message.tpl = "Single phase detected: {0}. Consider using array format [{1}]"
             -> "Singlepha"
      [] message.tpl = "Unrecognized PreferredPhases format: {0}. Use formats like: 1-3, [1-3], [1, 2, 3], or 2"
             -> "Unrecogniz"
      [] message.tpl = "Error parsing PreferredPhases: {0}" -> "Errorpars"

\* The environment of one run: env.now is Date.now(), env.rng the values
\* Math.random() returns, in order and cyclically.
RandomAt(env, k) == env.rng[((k - 1) % Len(env.rng)) + 1]

\* Every push of a run draws Math.random() once, so the push that makes the
\* list k long is the k-th draw.
addError(errors, entity, field, row, message, severity, env) ==
    Append(errors,
           [id |-> [prefix |-> <<entity, field, MessageFragment(message)>>,
                    vals |-> <<IntToString(row)>>,
                    now |-> env.now,
                    salt |-> RandomAt(env, Len(errors) + 1)],
            entity |-> entity,
            field |-> field,
            row |-> row,
            message |-> message,
            severity |-> severity])

\* The state of a pass over a collection: the findings so far, whether an
\* exception has left the pass, and the identifiers seen.
Pass(errors, thrown, seen) == [errors |-> errors, thrown |-> thrown, seen |-> seen]

(***************************************************************************)
(* validateClients                                                          *)
(***************************************************************************)
\* requestedIds.forEach(taskId => ...)
unknownTaskIds(errors, requestedIds, taskIds, index, env) ==
    LET f[k \in 0..Len(requestedIds)] ==
            IF k = 0 THEN errors
            ELSE IF Truthy(requestedIds[k]) /\ requestedIds[k] \notin taskIds
                 THEN addError(f[k - 1], "client", "RequestedTaskIDs", index,
                               Msg("Unknown task ID: {0}", <<requestedIds[k]>>), "error", env)
                 ELSE f[k - 1]
    IN  f[Len(requestedIds)]

\* The steps of the body of clients.forEach((client, index) => ...), index
\* counted from 0: each takes the findings so far and returns them extended.
checkClientID(p, client, index, env) ==
    IF client.ClientID \in p.seen
    THEN addError(p.errors, "client", "ClientID", index,
                  Msg("Duplicate ClientID: {0}", <<client.ClientID>>), "error", env)
    ELSE p.errors

\* checkPriorityLevel with >= for >: the bound 5 is taken for out of range.
checkPriorityLevelOffByOne(errors, client, index, env) ==
    IF client.PriorityLevel < 1 \/ client.PriorityLevel >= 5
    THEN addError(errors, "client", "PriorityLevel", index,
                  Msg("Priority level must be between 1 and 5", <<>>), "error", env)
    ELSE errors

checkPriorityLevel(errors, client, index, env) ==
    IF client.PriorityLevel < 1 \/ client.PriorityLevel > 5
    THEN addError(errors, "client", "PriorityLevel", index,
                  Msg("Priority level must be between 1 and 5", <<>>), "error", env)
    ELSE errors

\* checkRequestedTaskIDs without .map(id => id.trim()).
checkRequestedTaskIDsUntrimmed(errors, client, index, taskIds, env) ==
    IF Truthy(client.RequestedTaskIDs)
    THEN unknownTaskIds(errors, split(client.RequestedTaskIDs, ","), taskIds, index, env)
    ELSE errors

checkRequestedTaskIDs(errors, client, index, taskIds, env) ==
    IF Truthy(client.RequestedTaskIDs)
    THEN unknownTaskIds(errors, mapTrim(split(client.RequestedTaskIDs, ",")),
                        taskIds, index, env)
    ELSE errors

\* Every text JSON.parse rejects reported as an error, whatever it contains.
checkAttributesJSONAllErrors(errors, client, index, env) ==
    IF Truthy(client.AttributesJSON) /\ Truthy(trim(client.AttributesJSON))
       /\ JSONparse(client.AttributesJSON).t = "throw"
    THEN addError(errors, "client", "AttributesJSON", index,
             Msg("Invalid JSON format - contains JSON characters but is malformed", <<>>),
             "error", env)
    ELSE errors

checkAttributesJSON(errors, client, index, env) ==
    IF Truthy(client.AttributesJSON) /\ Truthy(trim(client.AttributesJSON))
    THEN IF JSONparse(client.AttributesJSON).t = "throw"
         THEN IF includes(client.AttributesJSON, <<"{">>)
                 \/ includes(client.AttributesJSON, <<"[">>)
              THEN addError(errors, "client", "AttributesJSON", index,
                       Msg("Invalid JSON format - contains JSON characters but is malformed", <<>>),
                       "error", env)
              ELSE addError(errors, "client", "AttributesJSON", index,
                       Msg("Non-JSON text detected - should be converted to valid JSON format", <<>>),
                       "warning", env)
         ELSE errors
    ELSE errors

validateClient(p, client, index, taskIds, env) ==
    Pass(checkAttributesJSON(
             checkRequestedTaskIDs(
                 checkPriorityLevel(checkClientID(p, client, index, env), client, index, env),
                 client, index, taskIds, env),
             client, index, env),
         FALSE, p.seen \cup {client.ClientID})

\* One more record of a pass, unless an exception has ended the pass.
nextClient(p, client, index, taskIds, env) ==
    IF p.thrown THEN p ELSE validateClient(p, client, index, taskIds, env)

validateClientsWith(errors, cs, taskIds, env) ==
    LET f[i \in 0..Len(cs)] ==
            IF i = 0 THEN Pass(errors, FALSE, {})
            ELSE nextClient(f[i - 1], cs[i], i - 1, taskIds, env)
    IN  f[Len(cs)]

validateClients(errors, cs, ts, env) ==
    validateClientsWith(errors, cs, {ts[j].TaskID : j \in 1..Len(ts)}, env)

(***************************************************************************)
(* validateWorkers                                                          *)
(***************************************************************************)
\* The try block for AvailableSlots and its catch; slots is what JSON.parse
\* gave, or the exception it threw.
checkSlots(errors, slots, worker, index, env) ==
    IF slots.t = "throw"
    THEN IF includes(worker.AvailableSlots, <<",">>)
         THEN addError(errors, "worker", "AvailableSlots", index,
                  Msg("Comma-separated slots detected - should be JSON array format like [1,2,3]", <<>>),
                  "warning", env)
         ELSE addError(errors, "worker", "AvailableSlots", index,
                  Msg("Invalid AvailableSlots format - must be valid JSON array like [1,2,3]", <<>>),
                  "error", env)
    ELSE IF ~isArray(slots)
         THEN addError(errors, "worker", "AvailableSlots", index,
                  Msg("AvailableSlots must be an array format", <<>>), "error", env)
    ELSE IF ~(\A k \in 1..Len(slots.v) : IsPositiveNumber(slots.v[k]))
         THEN addError(errors, "worker", "AvailableSlots", index,
                  Msg("AvailableSlots must contain only positive numbers", <<>>), "error", env)
    ELSE IF Len(slots.v) > worker.MaxLoadPerPhase
         THEN addError(errors, "worker", "MaxLoadPerPhase", index,
                  Msg("Worker has more available slots than max load per phase", <<>>),
                  "warning", env)
    ELSE errors

validateAvailableSlots(errors, worker, index, env) ==
    checkSlots(errors, JSONparse(worker.AvailableSlots), worker, index, env)

\* The steps of the body of workers.forEach((worker, index) => ...).
\* checkWorkerID with workerIds.add(worker.WorkerID) ahead of the check.
checkWorkerIDAfterAdd(p, worker, index, env) ==
    IF worker.WorkerID \in p.seen \cup {worker.WorkerID}
    THEN addError(p.errors, "worker", "WorkerID", index,
                  Msg("Duplicate WorkerID: {0}", <<worker.WorkerID>>), "error", env)
    ELSE p.errors

checkWorkerID(p, worker, index, env) ==
    IF worker.WorkerID \in p.seen
    THEN addError(p.errors, "worker", "WorkerID", index,
                  Msg("Duplicate WorkerID: {0}", <<worker.WorkerID>>), "error", env)
    ELSE p.errors

checkAvailableSlots(errors, worker, index, env) ==
    IF Truthy(worker.AvailableSlots) /\ Truthy(trim(worker.AvailableSlots))
    THEN validateAvailableSlots(errors, worker, index, env)
    ELSE errors

checkMaxLoadPerPhase(errors, worker, index, env) ==
    IF worker.MaxLoadPerPhase < 1
    THEN addError(errors, "worker", "MaxLoadPerPhase", index,
                  Msg("MaxLoadPerPhase must be at least 1", <<>>), "error", env)
    ELSE errors

checkQualificationLevel(errors, worker, index, env) ==
    IF worker.QualificationLevel < 1 \/ worker.QualificationLevel > 10
    THEN addError(errors, "worker", "QualificationLevel", index,
                  Msg("QualificationLevel should be between 1 and 10", <<>>), "warning", env)
    ELSE errors

\* validateWorker with JSON.parse outside any try: its SyntaxError leaves
\* forEach, validateWorkers and validateAll.
validateWorkerNoCatch(p, worker, index, env) ==
    IF Truthy(trim(worker.AvailableSlots)) /\ JSONparse(worker.AvailableSlots).t = "throw"
    THEN Pass(checkWorkerID(p, worker, index, env), TRUE, p.seen)
    ELSE Pass(checkQualificationLevel(
                  checkMaxLoadPerPhase(
                      checkAvailableSlots(checkWorkerID(p, worker, index, env),
                                          worker, index, env),
                      worker, index, env),
                  worker, index, env),
              FALSE, p.seen \cup {worker.WorkerID})

\* validateWorker with a return in the catch block: the checks that follow
\* AvailableSlots are not made for a worker whose slots do not parse.
validateWorkerReturnInCatch(p, worker, index, env) ==
    IF Truthy(trim(worker.AvailableSlots)) /\ JSONparse(worker.AvailableSlots).t = "throw"
    THEN Pass(checkAvailableSlots(checkWorkerID(p, worker, index, env), worker, index, env),
              FALSE, p.seen \cup {worker.WorkerID})
    ELSE Pass(checkQualificationLevel(
                  checkMaxLoadPerPhase(
                      checkAvailableSlots(checkWorkerID(p, worker, index, env),
                                          worker, index, env),
                      worker, index, env),
                  worker, index, env),
              FALSE, p.seen \cup {worker.WorkerID})

validateWorker(p, worker, index, env) ==
    Pass(checkQualificationLevel(
             checkMaxLoadPerPhase(
                 checkAvailableSlots(checkWorkerID(p, worker, index, env), worker, index, env),
                 worker, index, env),
             worker, index, env),
         FALSE, p.seen \cup {worker.WorkerID})

nextWorker(p, worker, index, env) ==
    IF p.thrown THEN p ELSE validateWorker(p, worker, index, env)

validateWorkers(errors, ws, env) ==
    LET f[i \in 0..Len(ws)] ==
            IF i = 0 THEN Pass(errors, FALSE, {})
            ELSE nextWorker(f[i - 1], ws[i], i - 1, env)
    IN  f[Len(ws)]

(***************************************************************************)
(* validateTasks                                                            *)
(***************************************************************************)
\* allWorkerSkills: every trimmed, lower-cased token of every truthy Skills.
Elements(seq) == {seq[k] : k \in 1..Len(seq)}

allWorkerSkillsOf(ws) ==
    UNION {IF Truthy(ws[j].Skills)
           THEN Elements(mapTrimLower(split(ws[j].Skills, ",")))
           ELSE {} : j \in 1..Len(ws)}

\* missingSkills with the body of the older validator: no test of the token
\* being non-empty, and addError with its default severity.
missingSkillsAsErrors(errors, requiredSkills, allWorkerSkills, index, env) ==
    LET f[k \in 0..Len(requiredSkills)] ==
            IF k = 0 THEN errors
            ELSE IF requiredSkills[k] \notin allWorkerSkills
                 THEN addError(f[k - 1], "task", "RequiredSkills", index,
                               Msg("No worker has required skill: {0}", <<requiredSkills[k]>>),
                               "error", env)
                 ELSE f[k - 1]
    IN  f[Len(requiredSkills)]

\* requiredSkills.forEach(skill => ...)
missingSkills(errors, requiredSkills, allWorkerSkills, index, env) ==
    LET f[k \in 0..Len(requiredSkills)] ==
            IF k = 0 THEN errors
            ELSE IF Truthy(requiredSkills[k]) /\ requiredSkills[k] \notin allWorkerSkills
                 THEN addError(f[k - 1], "task", "RequiredSkills", index,
                               Msg("No worker has required skill: {0}", <<requiredSkills[k]>>),
                               "warning", env)
                 ELSE f[k - 1]
    IN  f[Len(requiredSkills)]

\* start and end of a range: both numbers, both positive, start <= end.
ValidRange(start, end) ==
    /\ ~isNaN(start) /\ ~isNaN(end)
    /\ start.n > 0 /\ end.n > 0 /\ start.n <= end.n

\* Array.prototype.join(', ') of numbers.
RECURSIVE joinNumbers(_)
joinNumbers(ns) ==
    IF ns = <<>> THEN <<>>
    ELSE IF Len(ns) = 1 THEN NumToString(ns[1])
    ELSE NumToString(ns[1]) \o <<",", " ">> \o joinNumbers(Tail(ns))

\* "[a-b]": parts are the trimmed pieces around the dashes.
checkBracketRangeValues(errors, start, end, index, env) ==
    IF ValidRange(start, end) THEN errors
    ELSE addError(errors, "task", "PreferredPhases", index,
             Msg("Invalid range values in brackets: [{0} - {1}]. Both values must be positive and start <= end",
                 <<NumToString(start), NumToString(end)>>), "error", env)

checkBracketRange(errors, parts, phases, index, env) ==
    IF Len(parts) = 2
    THEN checkBracketRangeValues(errors, parseInt(parts[1]), parseInt(parts[2]), index, env)
    ELSE addError(errors, "task", "PreferredPhases", index,
             Msg("Invalid bracket range format: {0}. Use format [1-3] or [2 - 4]", <<phases>>),
             "error", env)

\* "[n1, n2, ...]": parsedPhases is what JSON.parse gave, or its exception.
checkBracketArray(errors, parsedPhases, phases, index, env) ==
    IF parsedPhases.t = "throw"
    THEN addError(errors, "task", "PreferredPhases", index,
             Msg("Invalid array format in brackets: {0}", <<phases>>), "error", env)
    ELSE IF isArray(parsedPhases)
    THEN IF \A k \in 1..Len(parsedPhases.v) : IsPositiveNumber(parsedPhases.v[k])
         THEN errors
         ELSE addError(errors, "task", "PreferredPhases", index,
                  Msg("PreferredPhases array must contain positive numbers", <<>>),
                  "error", env)
    ELSE addError(errors, "task", "PreferredPhases", index,
             Msg("PreferredPhases must be an array when using bracket notation", <<>>),
             "error", env)

checkBracketed(errors, innerContent, phases, index, env) ==
    IF includes(innerContent, <<"-">>)
    THEN checkBracketRange(errors, mapTrim(split(innerContent, "-")), phases, index, env)
    ELSE checkBracketArray(errors, JSONparse(phases), phases, index, env)

\* "a-b" without brackets.
checkPlainRangeValues(errors, start, end, phases, index, env) ==
    IF ValidRange(start, end) THEN errors
    ELSE addError(errors, "task", "PreferredPhases", index,
             Msg("Invalid phase range: {0}. Expected format: 1-3", <<phases>>), "error", env)

checkPlainRange(errors, parts, phases, index, env) ==
    IF Len(parts) = 2
    THEN checkPlainRangeValues(errors, parseInt(parts[1]), parseInt(parts[2]),
                               phases, index, env)
    ELSE addError(errors, "task", "PreferredPhases", index,
             Msg("Invalid phase range format: {0}. Use format 1-3", <<phases>>), "error", env)

\* phases.split(',').map(p => parseInt(p.trim()))
mapParseInt(toks) == [k \in 1..Len(toks) |-> parseInt(trim(toks[k]))]

\* "n1,n2,...".
checkCommaList(errors, phaseNumbers, phases, index, env) ==
    IF \A k \in 1..Len(phaseNumbers) : ~isNaN(phaseNumbers[k]) /\ phaseNumbers[k].n > 0
    THEN addError(errors, "task", "PreferredPhases", index,
             Msg("Comma-separated phases detected: {0}. Consider using array format [{1}]",
                 <<phases, joinNumbers(phaseNumbers)>>), "warning", env)
    ELSE addError(errors, "task", "PreferredPhases", index,
             Msg("All phases must be positive numbers", <<>>), "error", env)

\* checkSinglePhase with a positive number accepted as it is, without the
\* suggestion.
checkSinglePhaseSilent(errors, singlePhase, phases, index, env) ==
    IF ~isNaN(singlePhase) /\ singlePhase.n > 0
    THEN errors
    ELSE addError(errors, "task", "PreferredPhases", index,
             Msg("Invalid phase number: {0}", <<phases>>), "error", env)

\* "n".
checkSinglePhase(errors, singlePhase, phases, index, env) ==
    IF ~isNaN(singlePhase) /\ singlePhase.n > 0
    THEN addError(errors, "task", "PreferredPhases", index,
             Msg("Single phase detected: {0}. Consider using array format [{1}]",
                 <<phases, NumToString(singlePhase)>>), "warning", env)
    ELSE addError(errors, "task", "PreferredPhases", index,
             Msg("Invalid phase number: {0}", <<phases>>), "error", env)

\* The try block for PreferredPhases; phases is the trimmed field.
validatePreferredPhases(errors, phases, index, env) ==
    IF startsWith(phases, "[") /\ endsWith(phases, "]")
    THEN checkBracketed(errors, trim(SubSeq(phases, 2, Len(phases) - 1)), phases, index, env)
    ELSE IF includes(phases, <<"-">>) /\ ~includes(phases, <<"[">>) /\ ~includes(phases, <<"]">>)
    THEN checkPlainRange(errors, mapTrim(split(phases, "-")), phases, index, env)
    ELSE IF includes(phases, <<",">>)
    THEN checkCommaList(errors, mapParseInt(split(phases, ",")), phases, index, env)
    ELSE IF AllDigits(phases)
    THEN checkSinglePhase(errors, parseInt(phases), phases, index, env)
    ELSE addError(errors, "task", "PreferredPhases", index,
             Msg("Unrecognized PreferredPhases format: {0}. Use formats like: 1-3, [1-3], [1, 2, 3], or 2",
                 <<phases>>), "error", env)

\* The steps of the body of tasks.forEach((task, index) => ...).
checkTaskID(p, task, index, env) ==
    IF task.TaskID \in p.seen
    THEN addError(p.errors, "task", "TaskID", index,
                  Msg("Duplicate TaskID: {0}", <<task.TaskID>>), "error", env)
    ELSE p.errors

checkDuration(errors, task, index, env) ==
    IF task.Duration < 1
    THEN addError(errors, "task", "Duration", index,
                  Msg("Duration must be at least 1", <<>>), "error", env)
    ELSE errors

checkMaxConcurrent(errors, task, index, env) ==
    IF task.MaxConcurrent < 1
    THEN addError(errors, "task", "MaxConcurrent", index,
                  Msg("MaxConcurrent must be at least 1", <<>>), "error", env)
    ELSE errors

checkRequiredSkills(errors, task, index, allWorkerSkills, env) ==
    IF Truthy(task.RequiredSkills)
    THEN missingSkills(errors, mapTrimLower(split(task.RequiredSkills, ",")),
                       allWorkerSkills, index, env)
    ELSE errors

checkPreferredPhases(errors, task, index, env) ==
    IF Truthy(task.PreferredPhases) /\ Truthy(trim(task.PreferredPhases))
    THEN validatePreferredPhases(errors, trim(task.PreferredPhases), index, env)
    ELSE errors

validateTask(p, task, index, allWorkerSkills, env) ==
    Pass(checkPreferredPhases(
             checkRequiredSkills(
                 checkMaxConcurrent(
                     checkDuration(checkTaskID(p, task, index, env), task, index, env),
                     task, index, env),
                 task, index, allWorkerSkills, env),
             task, index, env),
         FALSE, p.seen \cup {task.TaskID})

nextTask(p, task, index, allWorkerSkills, env) ==
    IF p.thrown THEN p ELSE validateTask(p, task, index, allWorkerSkills, env)

validateTasksWith(errors, ts, allWorkerSkills, env) ==
    LET f[i \in 0..Len(ts)] ==
            IF i = 0 THEN Pass(errors, FALSE, {})
            ELSE nextTask(f[i - 1], ts[i], i - 1, allWorkerSkills, env)
    IN  f[Len(ts)]

validateTasks(errors, ts, ws, env) ==
    validateTasksWith(errors, ts, allWorkerSkillsOf(ws), env)

(***************************************************************************)
(* validateCrossReferences: skill coverage                                  *)
(***************************************************************************)
\* qualifiedWorkers with === for includes: the workers whose Skills is the
\* skill and nothing else.
qualifiedWorkersExact(ws, skill) ==
    SelectSeq(ws, LAMBDA worker :
        Truthy(worker.Skills) /\ toLowerCase(worker.Skills) = toLowerCase(skill))

\* qualifiedWorkers without skill.toLowerCase().
qualifiedWorkersCaseSensitive(ws, skill) ==
    SelectSeq(ws, LAMBDA worker :
        Truthy(worker.Skills) /\ includes(toLowerCase(worker.Skills), skill))

\* workers.filter(worker => worker.Skills &&
\*     worker.Skills.toLowerCase().includes(skill.toLowerCase()))
qualifiedWorkers(ws, skill) ==
    SelectSeq(ws, LAMBDA worker :
        Truthy(worker.Skills) /\ includes(toLowerCase(worker.Skills), toLowerCase(skill)))

\* skills.forEach(skill => ...)
uncoveredSkills(errors, skills, ws, taskIndex, env) ==
    LET f[k \in 0..Len(skills)] ==
            IF k = 0 THEN errors
            ELSE IF Truthy(skills[k]) /\ Len(qualifiedWorkers(ws, skills[k])) = 0
                 THEN addError(f[k - 1], "task", "RequiredSkills", taskIndex,
                               Msg("No worker available with skill: {0}", <<skills[k]>>),
                               "warning", env)
                 ELSE f[k - 1]
    IN  f[Len(skills)]

\* tasks.forEach((task, taskIndex) => ...) of validateCrossReferences.
skillCoverage(errors, ws, ts, env) ==
    LET f[i \in 0..Len(ts)] ==
            IF i = 0 THEN errors
            ELSE IF Truthy(ts[i].RequiredSkills)
                 THEN uncoveredSkills(f[i - 1], mapTrim(split(ts[i].RequiredSkills, ",")),
                                      ws, i - 1, env)
                 ELSE f[i - 1]
    IN  f[Len(ts)]

(***************************************************************************)
(* validatePhaseSlotSaturation.  A Map is its keys in insertion order and   *)
(* the value of each key.                                                   *)
(***************************************************************************)
EmptyMap == [keys |-> <<>>, val |-> <<>>]

MapHas(m, key) == \E k \in 1..Len(m.keys) : m.keys[k] = key

MapGet(m, key) == m.val[CHOOSE k \in 1..Len(m.keys) : m.keys[k] = key]

MapSet(m, key, value) ==
    IF MapHas(m, key)
    THEN [m EXCEPT !.val[CHOOSE k \in 1..Len(m.keys) : m.keys[k] = key] = value]
    ELSE [keys |-> Append(m.keys, key), val |-> Append(m.val, value)]

\* (map.get(phase) || 0) + amount, stored back.
MapAdd(m, phase, amount) ==
    MapSet(m, phase, (IF MapHas(m, phase) THEN MapGet(m, phase) ELSE 0) + amount)

\* map.get(phase) || 0
MapGetOrZero(m, phase) == IF MapHas(m, phase) THEN MapGet(m, phase) ELSE 0

\* slots.forEach(phase => ...): one worker's slots added to phaseCapacity.
addSlots(phaseCapacity, slots, worker) ==
    LET f[k \in 0..Len(slots)] ==
            IF k = 0 THEN phaseCapacity
            ELSE IF IsPositiveNumber(slots[k])
                 THEN MapAdd(f[k - 1], slots[k].v, worker.MaxLoadPerPhase)
                 ELSE f[k - 1]
    IN  f[Len(slots)]

\* The try block of one worker; slots is what JSON.parse gave, or its exception.
addParsedSlots(phaseCapacity, slots, worker) ==
    IF slots.t = "throw" THEN phaseCapacity
    ELSE IF isArray(slots) THEN addSlots(phaseCapacity, slots.v, worker)
    ELSE phaseCapacity

\* One worker's contribution to phaseCapacity.
addCapacity(phaseCapacity, worker) ==
    IF Truthy(worker.AvailableSlots)
    THEN addParsedSlots(phaseCapacity, JSONparse(worker.AvailableSlots), worker)
    ELSE phaseCapacity

phaseCapacityOf(ws) ==
    LET f[i \in 0..Len(ws)] ==
            IF i = 0 THEN EmptyMap ELSE addCapacity(f[i - 1], ws[i])
    IN  f[Len(ws)]

\* for (let i = start; i <= end; i++) phaseNumbers.push(i)
rangeNumbers(start, end) ==
    IF start > end THEN <<>> ELSE [k \in 1..(end - start + 1) |-> start + k - 1]

\* const [start, end] = phases.split('-').map(n => parseInt(n.trim()))
rangeOf(start, end) ==
    IF ~isNaN(start) /\ ~isNaN(end) THEN rangeNumbers(start.n, end.n) ELSE <<>>

\* The numbers of a sequence of tagged numbers.
Values(elems) == [k \in 1..Len(elems) |-> elems[k].v]

\* parsedPhases.filter(p => typeof p === 'number' && p > 0)
positivePhases(parsedPhases) ==
    IF parsedPhases.t = "throw" THEN <<>>
    ELSE IF isArray(parsedPhases)
    THEN Values(SelectSeq(parsedPhases.v, LAMBDA e : IsPositiveNumber(e)))
    ELSE <<>>

\* .map(p => parseInt(p.trim())).filter(p => !isNaN(p) && p > 0)
Integers(nums) == [k \in 1..Len(nums) |-> nums[k].n]

positiveInts(nums) == Integers(SelectSeq(nums, LAMBDA v : ~isNaN(v) /\ v.n > 0))

singlePhaseOf(singlePhase) ==
    IF ~isNaN(singlePhase) /\ singlePhase.n > 0 THEN <<singlePhase.n>> ELSE <<>>

\* split('-'), its first two pieces parsed.
rangeOfParts(parts) == rangeOf(parseInt(trim(parts[1])), parseInt(trim(parts[2])))

\* phaseNumbers of one task, as the saturation pass reads the trimmed field.
phaseNumbersOfTrimmed(phases) ==
    IF includes(phases, <<"-">>) THEN rangeOfParts(split(phases, "-"))
    ELSE IF startsWith(phases, "[") /\ endsWith(phases, "]")
    THEN positivePhases(JSONparse(phases))
    ELSE IF includes(phases, <<",">>) THEN positiveInts(mapParseInt(split(phases, ",")))
    ELSE IF AllDigits(phases) THEN singlePhaseOf(parseInt(phases))
    ELSE <<>>

phaseNumbersOf(task) == phaseNumbersOfTrimmed(trim(task.PreferredPhases))

\* phaseNumbers.forEach(phase => ...)
addPhases(phaseDemand, phaseNumbers, task) ==
    LET f[k \in 0..Len(phaseNumbers)] ==
            IF k = 0 THEN phaseDemand
            ELSE MapAdd(f[k - 1], phaseNumbers[k], task.Duration)
    IN  f[Len(phaseNumbers)]

\* One task's contribution to phaseDemand.
addDemand(phaseDemand, task) ==
    IF Truthy(task.PreferredPhases) /\ task.Duration > 0
    THEN addPhases(phaseDemand, phaseNumbersOf(task), task)
    ELSE phaseDemand

phaseDemandOf(ts) ==
    LET f[i \in 0..Len(ts)] ==
            IF i = 0 THEN EmptyMap ELSE addDemand(f[i - 1], ts[i])
    IN  f[Len(ts)]

SaturationMsg(phase, demand, capacity) ==
    Msg("Phase {0} is oversaturated: demand ({1}) exceeds capacity ({2})",
        <<IntToString(phase), IntToString(demand), IntToString(capacity)>>)

\* this.errors.push({...}) of the saturation pass.
pushSaturation(errors, phase, demand, capacity, env) ==
    Append(errors,
           [id |-> [prefix |-> <<"phase", "saturation">>,
                    vals |-> <<IntToString(phase)>>,
                    now |-> env.now,
                    salt |-> RandomAt(env, Len(errors) + 1)],
            entity |-> "task",
            field |-> "PreferredPhases",
            row |-> -1,
            message |-> SaturationMsg(phase, demand, capacity),
            severity |-> "warning"])

\* The body of phaseDemand.forEach((demand, phase) => ...).
compareDemand(errors, phase, demand, capacity, env) ==
    IF demand > capacity THEN pushSaturation(errors, phase, demand, capacity, env)
    ELSE errors

compareAll(errors, phaseCapacity, phaseDemand, env) ==
    LET f[k \in 0..Len(phaseDemand.keys)] ==
            IF k = 0 THEN errors
            ELSE compareDemand(f[k - 1], phaseDemand.keys[k], phaseDemand.val[k],
                               MapGetOrZero(phaseCapacity, phaseDemand.keys[k]), env)
    IN  f[Len(phaseDemand.keys)]

validatePhaseSlotSaturation(errors, ws, ts, env) ==
    compareAll(errors, phaseCapacityOf(ws), phaseDemandOf(ts), env)

(***************************************************************************)
(* detectCircularDependencies                                               *)
(***************************************************************************)
\* taskRelations.get(taskId)?.push(...relatedTasks), the list made first.
pushRelated(taskRelations, taskId, relatedTasks) ==
    MapSet(taskRelations, taskId,
           (IF MapHas(taskRelations, taskId) THEN MapGet(taskRelations, taskId) ELSE <<>>)
               \o relatedTasks)

\* requestedTasks.forEach(taskId => ...): each requested task gets the other
\* requested tasks pushed onto its list.
relateTasks(taskRelations, requestedTasks) ==
    LET f[k \in 0..Len(requestedTasks)] ==
            IF k = 0 THEN taskRelations
            ELSE pushRelated(f[k - 1], requestedTasks[k],
                             SelectSeq(requestedTasks, LAMBDA id : id # requestedTasks[k]))
    IN  f[Len(requestedTasks)]

relateRequested(taskRelations, requestedTasks) ==
    IF Len(requestedTasks) > 1 THEN relateTasks(taskRelations, requestedTasks)
    ELSE taskRelations

\* The body of clients.forEach(client => ...).
relateClient(taskRelations, client) ==
    IF Truthy(client.RequestedTaskIDs)
    THEN relateRequested(taskRelations,
                         filterNonEmpty(mapTrim(split(client.RequestedTaskIDs, ","))))
    ELSE taskRelations

taskRelationsOf(cs) ==
    LET f[i \in 0..Len(cs)] ==
            IF i = 0 THEN EmptyMap ELSE relateClient(f[i - 1], cs[i])
    IN  f[Len(cs)]

CircularMsg(taskId, relatedTask) ==
    Msg("Potential circular dependency detected between {0} and {1}",
        <<taskId, relatedTask>>)

\* this.errors.push({...}) of the circular pass.
pushCircular(errors, taskId, relatedTask, env) ==
    Append(errors,
           [id |-> [prefix |-> <<"circular">>,
                    vals |-> <<taskId, relatedTask>>,
                    now |-> env.now,
                    salt |-> RandomAt(env, Len(errors) + 1)],
            entity |-> "task",
            field |-> "RequestedTaskIDs",
            row |-> -1,
            message |-> CircularMsg(taskId, relatedTask),
            severity |-> "warning"])

\* taskRelations.get(relatedTask) || []
relatedTaskDepsOf(taskRelations, relatedTask) ==
    IF MapHas(taskRelations, relatedTask) THEN MapGet(taskRelations, relatedTask) ELSE <<>>

\* The body of relatedTasks.forEach(relatedTask => ...).
checkRelated(errors, relatedTaskDeps, taskId, relatedTask, env) ==
    IF \E j \in 1..Len(relatedTaskDeps) : relatedTaskDeps[j] = taskId
    THEN pushCircular(errors, taskId, relatedTask, env)
    ELSE errors

\* relatedTasks.forEach(relatedTask => ...) for one key of taskRelations.
circularOf(errors, taskRelations, taskId, relatedTasks, env) ==
    LET f[k \in 0..Len(relatedTasks)] ==
            IF k = 0 THEN errors
            ELSE checkRelated(f[k - 1], relatedTaskDepsOf(taskRelations, relatedTasks[k]),
                              taskId, relatedTasks[k], env)
    IN  f[Len(relatedTasks)]

\* taskRelations.forEach((relatedTasks, taskId) => ...)
circularAll(errors, taskRelations, env) ==
    LET f[k \in 0..Len(taskRelations.keys)] ==
            IF k = 0 THEN errors
            ELSE circularOf(f[k - 1], taskRelations, taskRelations.keys[k],
                            taskRelations.val[k], env)
    IN  f[Len(taskRelations.keys)]

detectCircularDependencies(errors, cs, ws, ts, env) ==
    circularAll(errors, taskRelationsOf(cs), env)

validateCrossReferences(errors, cs, ws, ts, env) ==
    detectCircularDependencies(
        validatePhaseSlotSaturation(skillCoverage(errors, ws, ts, env), ws, ts, env),
        cs, ws, ts, env)

(***************************************************************************)
(* validateAll: this.errors is emptied, the four passes run in order, and   *)
(* this.errors is returned.  An exception leaving a pass leaves validateAll *)
(* with the findings pushed so far in this.errors and nothing returned.     *)
(***************************************************************************)
\* A pass after another: an exception that has left a pass has left validateAll.
thenWorkers(p, ws, env) == IF p.thrown THEN p ELSE validateWorkers(p.errors, ws, env)

thenClients(p, cs, ts, env) == IF p.thrown THEN p ELSE validateClients(p.errors, cs, ts, env)

thenTasks(p, ts, ws, env) == IF p.thrown THEN p ELSE validateTasks(p.errors, ts, ws, env)

thenCrossReferences(p, cs, ws, ts, env) ==
    IF p.thrown THEN [errors |-> p.errors, thrown |-> TRUE]
    ELSE [errors |-> validateCrossReferences(p.errors, cs, ws, ts, env), thrown |-> FALSE]

\* validateAll with the worker pass ahead of the client pass.
validateAllWorkersFirst(thisErrors, cs, ws, ts, env) ==
    thenCrossReferences(
        thenTasks(thenClients(validateWorkers(<<>>, ws, env), cs, ts, env), ts, ws, env),
        cs, ws, ts, env)

\* validateAll without this.errors = []: the passes push onto what is there.
validateAllNoReset(thisErrors, cs, ws, ts, env) ==
    thenCrossReferences(
        thenTasks(thenWorkers(validateClients(thisErrors, cs, ts, env), ws, env), ts, ws, env),
        cs, ws, ts, env)

\* this.errors = [] comes first, so what an earlier run left in thisErrors
\* is dropped.
validateAll(thisErrors, cs, ws, ts, env) ==
    thenCrossReferences(
        thenTasks(thenWorkers(validateClients(<<>>, cs, ts, env), ws, env), ts, ws, env),
        cs, ws, ts, env)

(***************************************************************************)
(* The records of lib/types.ts.                                             *)
(***************************************************************************)
Client(id, priority, requested, attributes) ==
    [ClientID |-> id, ClientName |-> <<"n">>, PriorityLevel |-> priority,
     RequestedTaskIDs |-> requested, GroupTag |-> <<"g">>, AttributesJSON |-> attributes]

Worker(id, skills, slots, maxLoad, qualification) ==
    [WorkerID |-> id, WorkerName |-> <<"n">>, Skills |-> skills, AvailableSlots |-> slots,
     MaxLoadPerPhase |-> maxLoad, WorkerGroup |-> <<"g">>, QualificationLevel |-> qualification]

Task(id, duration, skills, phases, maxConcurrent) ==
    [TaskID |-> id, TaskName |-> <<"n">>, Category |-> <<"c">>, Duration |-> duration,
     RequiredSkills |-> skills, PreferredPhases |-> phases, MaxConcurrent |-> maxConcurrent]

\* Every sequence of at most n elements of S.
SeqsUpTo(S, n) == UNION {[1..k -> S] : k \in 0..n}

(***************************************************************************)
(* The state: a page holding three collections and one DataValidator.       *)
(***************************************************************************)
VARIABLES
    clients,     \* Client[] handed to validateAll
    workers,     \* Worker[]
    tasks,       \* Task[]
    errors,      \* DataValidator.errors (this.errors)
    result,      \* the list the last completed validateAll returned
    outcome,     \* "idle", or how the last validateAll ended: "returned" / "threw"
    calls,       \* the number of invocations of validateAll so far
    clock,       \* Date.now()
    rng,         \* the values Math.random() returns next, cyclically
    lists,       \* the arrays the DataValidator has created for this.errors, as
                 \* they are now; this.errors refers to the last of them
    returned,    \* for each completed validateAll, which of them it returned
    validationErrors,  \* the page's state of that name: the findings it shows
    activeTab,   \* the page's state of that name
    isExporting, \* the export panel's state of that name
    exports,     \* how many times the export panel has written its files
    fixTimers,   \* the timers a fix has set for onFixComplete and that have
                 \* not fired: for each, the collections its callback sees
                 \* and its delay in milliseconds
    effectTimer  \* the timer the validation effect has set and that has not
                 \* fired or been cleared: the collections its callback sees

vars == <<clients, workers, tasks, errors, result, outcome, calls, clock, rng,
          lists, returned, validationErrors, activeTab, isExporting, exports,
          fixTimers, effectTimer>>

\* The state of the page and of its export panel, apart from the collections.
page == <<validationErrors, activeTab, isExporting, exports, fixTimers, effectTimer>>

\* The collections as a render of the page holds them.
Collections(cs, ws, ts) == [clients |-> cs, workers |-> ws, tasks |-> ts]

\* setTimeout(() => onFixComplete(), delay) in a render that holds cs, ws, ts.
Timer(cs, ws, ts, delay) == [clients |-> cs, workers |-> ws, tasks |-> ts, delay |-> delay]

\* The validation effect, which runs after every render because the validator
\* it depends on is a new object at every render: the timer of the render
\* before is cleared, and a timer is set if a collection has records.
armed(cs, ws, ts) ==
    IF Len(cs) > 0 \/ Len(ws) > 0 \/ Len(ts) > 0
    THEN <<Collections(cs, ws, ts)>>
    ELSE <<>>

\* The effect without its else: the findings stay when the last record goes.
effectKeepsShown(cs, ws, ts, shown) == shown

\* The else of the effect: setValidationErrors([]).
effectShows(cs, ws, ts, shown) ==
    IF Len(cs) > 0 \/ Len(ws) > 0 \/ Len(ts) > 0 THEN shown ELSE <<>>

\* The generator after n draws.
Rotate(r, n) == [k \in 1..Len(r) |-> r[((k - 1 + n) % Len(r)) + 1]]

\* The stream 0, 1, ..., MaxSeed.
CountingStream == [k \in 1..(MaxSeed + 1) |-> k - 1]

InitWith(CS, WS, TS, RS) ==
    /\ clients \in CS
    /\ workers \in WS
    /\ tasks \in TS
    /\ errors = <<>>
    /\ result = <<>>
    /\ outcome = "idle"
    /\ calls = 0
    /\ clock = 0
    /\ rng \in RS
    /\ lists = <<<<>>>>
    /\ returned = <<>>
    /\ validationErrors = <<>>
    /\ activeTab = "upload"
    /\ isExporting = FALSE
    /\ exports = 0
    /\ fixTimers = <<>>
    /\ effectTimer = armed(clients, workers, tasks)

\* this.errors.length = 0 for this.errors = []: the array this.errors refers
\* to is emptied and no array is created.
resetErrorsInPlace(arrays) == [arrays EXCEPT ![Len(arrays)] = <<>>]

\* this.errors = []: a new array, to which this.errors refers from now on.
resetErrors(arrays) == Append(arrays, <<>>)

\* The pushes of a run, onto the array this.errors refers to.
pushed(arrays, list) == [arrays EXCEPT ![Len(arrays)] = list]

\* const errors = validator.validateAll(clients, workers, tasks)
\* How an invocation ends: r.errors is this.errors as validateAll leaves it,
\* and what it returns is the array this.errors refers to.
Completes(r) ==
    /\ errors' = r.errors
    /\ result' = IF r.thrown THEN result ELSE r.errors
    /\ outcome' = IF r.thrown THEN "threw" ELSE "returned"
    /\ rng' = Rotate(rng, Len(r.errors))
    /\ lists' = pushed(resetErrors(lists), r.errors)
    /\ returned' = IF r.thrown THEN returned ELSE Append(returned, Len(resetErrors(lists)))

ValidateAll ==
    /\ calls < MaxCalls
    /\ Completes(validateAll(errors, clients, workers, tasks, [now |-> clock, rng |-> rng]))
    /\ calls' = calls + 1
    /\ UNCHANGED <<clients, workers, tasks, clock, page>>

\* Time passes.
Tick ==
    /\ clock < MaxClock
    /\ clock' = clock + 1
    /\ UNCHANGED <<clients, workers, tasks, errors, result, outcome, calls, rng,
                   lists, returned, page>>

Next == ValidateAll \/ Tick

\* One input of several runs, for what validateAll computes whatever the
\* clock shows.
Run == ValidateAll

(***************************************************************************)
(* Inputs.  Identifiers, skills and field texts the collections are drawn   *)
(* from.                                                                    *)
(***************************************************************************)
C1id == <<"C", "1">>
C2id == <<"C", "2">>
W1id == <<"W", "1">>
W2id == <<"W", "2">>
T1id == <<"T", "1">>
T2id == <<"T", "2">>
T9id == <<"T", "9">>
Blank == <<>>

\* Two streams of Math.random: all values different, and all values equal.
SomeStreams == {CountingStream, [k \in 1..(MaxSeed + 1) |-> 0]}

\* The collections of a family: one collection takes every value of at most
\* MaxRows records while the other two are taken from a few fixed collections.
InitVarying(recC, fixC, recW, fixW, recT, fixT, RS) ==
    \/ InitWith(SeqsUpTo(recC, MaxRows), fixW, fixT, RS)
    \/ InitWith(fixC, SeqsUpTo(recW, MaxRows), fixT, RS)
    \/ InitWith(fixC, fixW, SeqsUpTo(recT, MaxRows), RS)

\* The mixed collections: every pass has something to report.
MixedClients ==
    {Client(C1id, 3, <<"T", "1", ",", "T", "2">>, <<"{", "}">>),
     Client(C1id, 6, <<"T", "9", ",", " ">>, <<"{", "x">>),
     Client(C2id, 0, Blank, <<"a", "b">>)}

MixedWorkers ==
    {Worker(W1id, <<"a", ",", "B">>, <<"[", "1", ",", "2", "]">>, 1, 5),
     Worker(W1id, Blank, <<"1", ",", "x">>, 0, 11),
     Worker(W2id, <<"c">>, <<"x">>, 2, 0)}

MixedTasks ==
    {Task(T1id, 2, <<"a", ",", "z">>, <<"[", "1", "]">>, 1),
     Task(T1id, 0, <<"b">>, <<"[", "4", "-", "2", "]">>, 0),
     Task(T2id, 3, Blank, <<"1", ",", "2">>, 1)}

FixedMixedClients ==
    {<<Client(C1id, 3, <<"T", "1", ",", "T", "2">>, <<"{", "}">>),
       Client(C1id, 6, <<"T", "9", ",", " ">>, <<"{", "x">>)>>}

FixedMixedWorkers ==
    {<<Worker(W1id, <<"a", ",", "B">>, <<"[", "1", ",", "2", "]">>, 1, 5),
       Worker(W1id, Blank, <<"1", ",", "x">>, 0, 11)>>}

FixedMixedTasks ==
    {<<Task(T1id, 2, <<"a", ",", "z">>, <<"[", "1", "]">>, 1),
       Task(T1id, 0, <<"b">>, <<"[", "4", "-", "2", "]">>, 0)>>}

Init ==
    InitVarying(MixedClients, FixedMixedClients, MixedWorkers, FixedMixedWorkers,
                MixedTasks, FixedMixedTasks, SomeStreams)

Spec == Init /\ [][Next]_vars

(***************************************************************************)
(* Reading a report.                                                        *)
(***************************************************************************)
\* A finding without its identifier.
StripId(f) == [entity |-> f.entity, field |-> f.field, row |-> f.row,
               message |-> f.message, severity |-> f.severity]

StripIds(list) == [i \in 1..Len(list) |-> StripId(list[i])]

\* The pass a finding comes from, read off the finding: 1 clients, 2 workers,
\* 3 tasks, 4 skill coverage, 5 phase saturation, 6 circular grouping.
StageOf(f) ==
    IF f.entity = "client" THEN 1
    ELSE IF f.entity = "worker" THEN 2
    ELSE IF f.row = -1 /\ f.field = "PreferredPhases" THEN 5
    ELSE IF f.row = -1 /\ f.field = "RequestedTaskIDs" THEN 6
    ELSE IF f.message.tpl = "No worker available with skill: {0}" THEN 4
    ELSE 3

(***************************************************************************)
(* C1: the list validateAll returns follows the fixed traversal - client    *)
(* findings, then worker findings, then task findings, then skill coverage, *)
(* phase saturation and circular grouping - and inside a per-entity pass    *)
(* the rows never decrease.                                                 *)
(***************************************************************************)
C1_TraversalOrder ==
    outcome = "returned" =>
        \A i \in 1..Len(result) : \A j \in 1..Len(result) :
            i < j =>
                /\ StageOf(result[i]) <= StageOf(result[j])
                /\ (StageOf(result[i]) = StageOf(result[j]) /\ StageOf(result[i]) <= 4
                        => result[i].row <= result[j].row)

\* A report with findings of all six passes, two rows of one pass among them.
C1_Witness ==
    /\ outcome = "returned"
    /\ \A st \in 1..6 : \E i \in 1..Len(result) : StageOf(result[i]) = st
    /\ \E i \in 1..Len(result) : \E j \in 1..Len(result) :
           /\ StageOf(result[i]) = 1 /\ StageOf(result[j]) = 1
           /\ result[i].row < result[j].row

(***************************************************************************)
(* C2: idempotence.  The collections of a DataValidator's page do not       *)
(* change between two invocations, so every invocation that follows a       *)
(* completed one runs on the same inputs: it returns the same findings in   *)
(* the same order, identifiers left aside - although this.errors still      *)
(* holds the earlier findings, and the clock and the generator have moved.  *)
(***************************************************************************)
C2_Idempotent ==
    [][(outcome = "returned" /\ calls' = calls + 1)
           => (outcome' = "returned" /\ StripIds(result') = StripIds(result))]_vars

\* A second invocation has returned a report of all six passes whose
\* identifiers are those of a later instant.
C2_Witness ==
    /\ calls = 2 /\ outcome = "returned"
    /\ \A st \in 1..6 : \E i \in 1..Len(result) : StageOf(result[i]) = st
    /\ \A i \in 1..Len(result) : result[i].id.now = 1

(***************************************************************************)
(* Records whose parsed fields hold text that parses and text that does     *)
(* not, all other fields out of range so that every other check of the      *)
(* record has something to report.                                          *)
(***************************************************************************)
\* AttributesJSON: an object, malformed JSON, plain text.
AttrTexts == {<<"{", "}">>, <<"{", "x">>, <<"a", "b">>}

\* AvailableSlots: an array of two phases, a comma list that is no JSON, a word.
SlotTexts == {<<"[", "1", ",", "2", "]">>, <<"1", ",", "x">>, <<"x">>}

\* PreferredPhases: an array of one phase, brackets around a word, a word.
PhaseTexts == {<<"[", "1", "]">>, <<"[", "x", "]">>, <<"x">>}

\* The PreferredPhases texts above that are no phase set.
MalformedPhases == {<<"[", "x", "]">>, <<"x">>}

ParseClients == {Client(C1id, 6, T9id, a) : a \in AttrTexts}

ParseWorkers == {Worker(W1id, <<"a">>, t, 1, 11) : t \in SlotTexts}

ParseTasks == {Task(T1id, 0, <<"z">>, t, 0) : t \in PhaseTexts}

InitParse ==
    InitVarying(ParseClients, {<<Client(C2id, 6, T9id, <<"{", "x">>)>>},
                ParseWorkers, {<<Worker(W2id, <<"a">>, <<"x">>, 1, 11)>>},
                ParseTasks, {<<Task(T2id, 0, <<"z">>, <<"[", "x", "]">>, 0)>>},
                {CountingStream})

SpecParse == InitParse /\ [][Run]_vars

\* A non-blank text JSON.parse rejects.
Unparseable(text) == Truthy(trim(text)) /\ JSONparse(text).t = "throw"

\* The report holds a finding of that entity, row and field.
Reported(list, entity, row, field) ==
    \E k \in 1..Len(list) :
        list[k].entity = entity /\ list[k].row = row /\ list[k].field = field

WithField(records, i, field, text) ==
    [records EXCEPT ![i] = [@ EXCEPT ![field] = text]]

\* The findings on records, identifiers left aside, that are not on the
\* given field of the given record and whose message is not exempt.
OtherFindings(list, entity, row, field, exempt) ==
    SelectSeq(StripIds(list),
              LAMBDA f : /\ f.row >= 0
                         /\ ~(f.entity = entity /\ f.row = row /\ f.field = field)
                         /\ f.message.tpl \notin exempt)

\* The report, and the report of the run on other inputs, agree on them.
SameElsewhere(list, other, entity, row, field, exempt) ==
    OtherFindings(list, entity, row, field, exempt)
        = OtherFindings(other.errors, entity, row, field, exempt)

\* Whatever text a parsed field of a record holds, the findings on every
\* other field and record are those of the report.
FieldIndependence(exempt) ==
    /\ \A i \in 1..Len(clients) : \A x \in AttrTexts :
           SameElsewhere(result,
                         validateAll(<<>>, WithField(clients, i, "AttributesJSON", x),
                                     workers, tasks, [now |-> 0, rng |-> CountingStream]),
                         "client", i - 1, "AttributesJSON", exempt)
    /\ \A i \in 1..Len(workers) : \A x \in SlotTexts :
           SameElsewhere(result,
                         validateAll(<<>>, clients, WithField(workers, i, "AvailableSlots", x),
                                     tasks, [now |-> 0, rng |-> CountingStream]),
                         "worker", i - 1, "AvailableSlots", exempt)
    /\ \A i \in 1..Len(tasks) : \A x \in PhaseTexts :
           SameElsewhere(result,
                         validateAll(<<>>, clients, workers,
                                     WithField(tasks, i, "PreferredPhases", x),
                                     [now |-> 0, rng |-> CountingStream]),
                         "task", i - 1, "PreferredPhases", exempt)

\* C4 as stated: the findings for field F of record R are the same whether
\* or not any other field of R, or any field of another record, parses.
C4_AllFindingsIndependent == outcome = "returned" => FieldIndependence({})

\* C4, amended: a field that fails to parse stops no check of another field,
\* record or stage - the findings on every other field of every record are
\* the same whatever the parsed fields hold - save the warning that a worker
\* has more slots than MaxLoadPerPhase, which is reported on MaxLoadPerPhase
\* and exists only when that worker's AvailableSlots parses into an array
\* of positive numbers.
C4_NoEarlyAbort ==
    outcome = "returned" =>
        FieldIndependence({"Worker has more available slots than max load per phase"})

\* A report on a worker whose slots do not parse, followed by another
\* worker, with findings on the later fields of the first and on the second.
C4_Witness ==
    /\ outcome = "returned"
    /\ Len(workers) = 2 /\ Unparseable(workers[1].AvailableSlots)
    /\ Reported(result, "worker", 0, "AvailableSlots")
    /\ Reported(result, "worker", 0, "QualificationLevel")
    /\ Reported(result, "worker", 1, "QualificationLevel")
    /\ Reported(result, "task", 0, "MaxConcurrent")

(***************************************************************************)
(* Records that differ in one field: the identifier, the numbers the range  *)
(* checks read, or the requested task list.  The other collections are      *)
(* valid.                                                                   *)
(***************************************************************************)
IdClients == {Client(id, 3, T1id, Blank) : id \in {C1id, C2id}}

PriorityClients == {Client(C1id, n, T1id, Blank) : n \in {0, 1, 5, 6}}

\* RequestedTaskIDs: a known and an unknown task, an unknown task and an
\* empty token, two known tasks with blanks around them, an unknown task twice.
RequestTexts ==
    {<<"T", "1", ",", "T", "9">>, <<"T", "9", ",", " ">>,
     <<" ", "T", "1", " ", ",", "T", "2">>, <<"T", "9", ",", "T", "9">>}

RequestClients == {Client(C1id, 3, t, Blank) : t \in RequestTexts}

IdWorkers == {Worker(id, <<"a">>, <<"[", "1", "]">>, 1, 5) : id \in {W1id, W2id}}

\* MaxLoadPerPhase and QualificationLevel, in and out of range.
LoadWorkers ==
    {Worker(W1id, <<"a">>, <<"[", "1", "]">>, n[1], n[2]) :
         n \in {<<0, 0>>, <<1, 1>>, <<2, 10>>, <<1, 11>>}}

IdTasks == {Task(id, 1, Blank, <<"[", "1", "]">>, 1) : id \in {T1id, T2id}}

\* Duration and MaxConcurrent, in and out of range.
DurationTasks ==
    {Task(T1id, n[1], Blank, <<"[", "1", "]">>, n[2]) :
         n \in {<<0, 1>>, <<1, 0>>, <<1, 1>>, <<-1, -1>>}}

ValidClients == {<<Client(C1id, 3, T1id, Blank)>>}

ValidWorkers == {<<Worker(W1id, <<"a">>, <<"[", "1", "]">>, 1, 5)>>}

ValidTasks ==
    {<<Task(T1id, 1, Blank, <<"[", "1", "]">>, 1), Task(T2id, 1, Blank, <<"[", "1", "]">>, 1)>>}

InitRecords ==
    \/ InitWith(SeqsUpTo(IdClients, MaxIdRows), ValidWorkers, ValidTasks, {CountingStream})
    \/ InitWith(SeqsUpTo(PriorityClients \cup RequestClients, MaxRows),
                ValidWorkers, ValidTasks, {CountingStream})
    \/ InitWith(ValidClients, SeqsUpTo(IdWorkers, MaxIdRows), ValidTasks, {CountingStream})
    \/ InitWith(ValidClients, SeqsUpTo(LoadWorkers, MaxRows), ValidTasks, {CountingStream})
    \/ InitWith(ValidClients, ValidWorkers, SeqsUpTo(IdTasks, MaxIdRows), {CountingStream})
    \/ InitWith(ValidClients, ValidWorkers, SeqsUpTo(DurationTasks, MaxRows),
                {CountingStream})

SpecRecords == InitRecords /\ [][Run]_vars

\* The findings of a report on one field of one record, in order.
FindingsOn(list, entity, row, field) ==
    SelectSeq(list, LAMBDA f : f.entity = entity /\ f.row = row /\ f.field = field)

\* Those of one severity.
OfSeverity(list, severity) == SelectSeq(list, LAMBDA f : f.severity = severity)

(***************************************************************************)
(* C5: duplicate detection.  In each collection the record at row i has a   *)
(* finding on its identifier field if and only if an earlier row holds the  *)
(* same identifier; it is then the only one, an error naming the value.     *)
(***************************************************************************)
DuplicatesFlagged(list, records, entity, field, tpl) ==
    \A i \in 1..Len(records) :
        FindingsOn(list, entity, i - 1, field)
            = IF \E j \in 1..(i - 1) : records[j][field] = records[i][field]
              THEN <<[entity |-> entity, field |-> field, row |-> i - 1,
                      message |-> Msg(tpl, <<records[i][field]>>), severity |-> "error"]>>
              ELSE <<>>

C5_DuplicateDetection ==
    outcome = "returned" =>
        /\ DuplicatesFlagged(StripIds(result), clients, "client", "ClientID",
                             "Duplicate ClientID: {0}")
        /\ DuplicatesFlagged(StripIds(result), workers, "worker", "WorkerID",
                             "Duplicate WorkerID: {0}")
        /\ DuplicatesFlagged(StripIds(result), tasks, "task", "TaskID",
                             "Duplicate TaskID: {0}")

\* Workers W1, W2, W1 at rows 0, 1, 2: the report has its duplicate error on
\* row 2.
C5_Witness ==
    /\ outcome = "returned"
    /\ Len(workers) = 3
    /\ workers[1].WorkerID = W1id /\ workers[2].WorkerID = W2id /\ workers[3].WorkerID = W1id
    /\ Len(FindingsOn(result, "worker", 2, "WorkerID")) = 1

(***************************************************************************)
(* C6: range checks.  PriorityLevel outside 1..5, MaxLoadPerPhase < 1,      *)
(* Duration < 1 and MaxConcurrent < 1 each give exactly one error on that   *)
(* field of that row, a value in range none; QualificationLevel outside     *)
(* 1..10 gives exactly one finding, a warning, and a value in range none.   *)
(***************************************************************************)
\* The number of findings of that severity on the field is 1 when the value
\* is out of range and 0 when it is not.
RangeChecked(list, entity, row, field, severity, outOfRange) ==
    Len(OfSeverity(FindingsOn(list, entity, row, field), severity))
        = IF outOfRange THEN 1 ELSE 0

C6_RangeChecks ==
    outcome = "returned" =>
        /\ \A i \in 1..Len(clients) :
               RangeChecked(result, "client", i - 1, "PriorityLevel", "error",
                            clients[i].PriorityLevel < 1 \/ clients[i].PriorityLevel > 5)
        /\ \A i \in 1..Len(workers) :
               /\ RangeChecked(result, "worker", i - 1, "MaxLoadPerPhase", "error",
                               workers[i].MaxLoadPerPhase < 1)
               /\ RangeChecked(result, "worker", i - 1, "QualificationLevel", "warning",
                               workers[i].QualificationLevel < 1
                                   \/ workers[i].QualificationLevel > 10)
               /\ OfSeverity(FindingsOn(result, "worker", i - 1, "QualificationLevel"),
                             "error") = <<>>
        /\ \A i \in 1..Len(tasks) :
               /\ RangeChecked(result, "task", i - 1, "Duration", "error",
                               tasks[i].Duration < 1)
               /\ RangeChecked(result, "task", i - 1, "MaxConcurrent", "error",
                               tasks[i].MaxConcurrent < 1)

\* Clients with PriorityLevel 6 and 5: one error on the first, none on the
\* second.
C6_Witness ==
    /\ outcome = "returned"
    /\ Len(clients) = 2
    /\ clients[1].PriorityLevel = 6 /\ clients[2].PriorityLevel = 5
    /\ Len(FindingsOn(result, "client", 0, "PriorityLevel")) = 1
    /\ FindingsOn(result, "client", 1, "PriorityLevel") = <<>>

(***************************************************************************)
(* C7: unknown task references.                                             *)
(***************************************************************************)
\* The trimmed comma-separated tokens of a text.
Tokens(text) == mapTrim(split(text, ","))

\* What the findings on RequestedTaskIDs of a client row name, in order.
NamedTokens(list, row) ==
    [k \in 1..Len(FindingsOn(list, "client", row, "RequestedTaskIDs")) |->
        FindingsOn(list, "client", row, "RequestedTaskIDs")[k].message.args[1]]

\* Each token of each client row that is among the tokens to flag and is
\* no TaskID of the task collection has its error, in order, and there is
\* no other finding on that field of that row.
UnknownTokensFlagged(flagged(_)) ==
    \A i \in 1..Len(clients) :
        /\ NamedTokens(result, i - 1)
               = SelectSeq(Tokens(clients[i].RequestedTaskIDs),
                           LAMBDA t : flagged(t) /\ \A j \in 1..Len(tasks) : tasks[j].TaskID # t)
        /\ \A k \in 1..Len(FindingsOn(result, "client", i - 1, "RequestedTaskIDs")) :
               /\ FindingsOn(result, "client", i - 1, "RequestedTaskIDs")[k].severity = "error"
               /\ FindingsOn(result, "client", i - 1, "RequestedTaskIDs")[k].message.tpl
                      = "Unknown task ID: {0}"

AnyToken(t) == TRUE

\* C7 as stated: every trimmed token that equals no TaskID has one error.
C7_EveryUnknownToken == outcome = "returned" => UnknownTokensFlagged(AnyToken)

\* C7, amended: every non-empty trimmed token of RequestedTaskIDs that equals
\* no TaskID of the task collection has one error on that client row naming
\* it, one per occurrence; tokens that equal a TaskID, and empty tokens (as
\* a trailing comma or an empty field leaves), have none.
C7_UnknownNonEmptyTokens == outcome = "returned" => UnknownTokensFlagged(Truthy)

\* A report on a client that requests T1 and the unknown T9: one error,
\* naming T9.
C7_Witness ==
    /\ outcome = "returned"
    /\ \E i \in 1..Len(clients) :
           /\ clients[i].RequestedTaskIDs = <<"T", "1", ",", "T", "9">>
           /\ NamedTokens(result, i - 1) = <<T9id>>

(***************************************************************************)
(* Collections for the cross-reference checks: slots and phases that are    *)
(* bracketed arrays of positive integers, some naming a phase twice;        *)
(* clients that request tasks together; skills that are a worker's skill,   *)
(* a part of one, or nobody's.                                              *)
(***************************************************************************)
SlotWorkers ==
    {Worker(W1id, <<"a">>, t, n, 5) :
         t \in {<<"[", "1", "]">>, <<"[", "1", ",", "1", "]">>, <<"[", "1", ",", "2", "]">>},
         n \in {1, 2}}

PhaseTasks ==
    {Task(T1id, n, Blank, t, 1) :
         t \in {<<"[", "1", "]">>, <<"[", "2", "]">>, <<"[", "1", ",", "2", "]">>},
         n \in {0, 3, 5}}

\* Two workers with slots [1] and load 2: capacity 4 in phase 1.
TwoSlotWorkers ==
    {<<Worker(W1id, <<"a">>, <<"[", "1", "]">>, 2, 5),
       Worker(W2id, <<"a">>, <<"[", "1", "]">>, 2, 5)>>}

OnePhaseTask == {<<Task(T1id, 3, Blank, <<"[", "1", "]">>, 1)>>}

GroupClients ==
    {Client(C1id, 3, t, Blank) :
         t \in {<<"T", "1", ",", "T", "2">>, <<"T", "2", ",", "T", "1">>, <<"T", "1">>,
                <<"T", "1", ",", "T", "2", ",", "T", "9">>}}

\* RequiredSkills: part of a worker's skill, a worker's skill in another
\* case, nobody's skill, nobody's skill twice, nobody's and a worker's.
SkillTasks ==
    {Task(T1id, 1, t, <<"[", "1", "]">>, 1) :
         t \in {<<"a">>, <<"A", "B">>, <<"z">>, <<"z", ",", "z">>,
                <<"Z", ",", " ", "A", "B">>, <<"A", "b", ",", " ">>}}

SkilledWorkers ==
    {<<Worker(W1id, <<"A", "b">>, <<"[", "1", "]">>, 1, 5)>>,
     <<Worker(W1id, Blank, <<"[", "1", "]">>, 1, 5),
       Worker(W2id, <<"c", ",", " ", "A", "b">>, <<"[", "1", "]">>, 1, 5)>>,
     <<>>}

InitCross ==
    \/ InitWith(ValidClients, SeqsUpTo(SlotWorkers, MaxRows), OnePhaseTask, {CountingStream})
    \/ InitWith(ValidClients, TwoSlotWorkers, SeqsUpTo(PhaseTasks, MaxRows), {CountingStream})
    \/ InitWith(SeqsUpTo(GroupClients, MaxRows), ValidWorkers, ValidTasks, {CountingStream})
    \/ InitWith(ValidClients, SkilledWorkers, SeqsUpTo(SkillTasks, MaxRows), {CountingStream})

SpecCross == InitCross /\ [][Run]_vars

\* The findings of a report that belong to no row, on one field.
AggregateFindings(list, field) ==
    SelectSeq(list, LAMBDA f : f.row = -1 /\ f.field = field)

(***************************************************************************)
(* C8: phase saturation, with capacity and demand summed over the workers   *)
(* and tasks whose phase set includes the phase.                            *)
(***************************************************************************)
\* A bracketed array of positive integers.
PhaseArray(text) ==
    /\ startsWith(trim(text), "[")
    /\ isArray(JSONparse(text))
    /\ \A k \in 1..Len(JSONparse(text).v) : IsPositiveNumber(JSONparse(text).v[k])

\* The set of phases such an array denotes.
PhaseSet(text) == {JSONparse(text).v[k].v : k \in 1..Len(JSONparse(text).v)}

\* The sum of a numeric field over the records that satisfy P.
SumOver(records, field, P(_)) ==
    LET f[i \in 0..Len(records)] ==
            IF i = 0 THEN 0
            ELSE f[i - 1] + (IF P(records[i]) THEN records[i][field] ELSE 0)
    IN  f[Len(records)]

Capacity(p) ==
    SumOver(workers, "MaxLoadPerPhase", LAMBDA w : p \in PhaseSet(w.AvailableSlots))

Demand(p) ==
    SumOver(tasks, "Duration", LAMBDA t : t.Duration > 0 /\ p \in PhaseSet(t.PreferredPhases))

HasDemand(p) ==
    \E i \in 1..Len(tasks) : tasks[i].Duration > 0 /\ p \in PhaseSet(tasks[i].PreferredPhases)

\* C8 as stated: when every AvailableSlots and PreferredPhases is a bracketed
\* array of positive integers, the report has exactly one saturation warning
\* for phase p, stating p, demand[p] and capacity[p], if p has demand and
\* demand[p] > capacity[p], and none for any other phase.
C8_SaturationOfPhaseSets ==
    (/\ outcome = "returned"
     /\ \A i \in 1..Len(workers) : PhaseArray(workers[i].AvailableSlots)
     /\ \A i \in 1..Len(tasks) : PhaseArray(tasks[i].PreferredPhases))
    => /\ \A p \in UNION {PhaseSet(tasks[i].PreferredPhases) : i \in 1..Len(tasks)} :
              Len(SelectSeq(AggregateFindings(result, "PreferredPhases"),
                            LAMBDA f : /\ f.severity = "warning"
                                       /\ f.message = SaturationMsg(p, Demand(p), Capacity(p))))
                  = IF HasDemand(p) /\ Demand(p) > Capacity(p) THEN 1 ELSE 0
       /\ \A k \in 1..Len(AggregateFindings(result, "PreferredPhases")) :
              \E p \in UNION {PhaseSet(tasks[i].PreferredPhases) : i \in 1..Len(tasks)} :
                  /\ HasDemand(p) /\ Demand(p) > Capacity(p)
                  /\ AggregateFindings(result, "PreferredPhases")[k].message
                         = SaturationMsg(p, Demand(p), Capacity(p))

(***************************************************************************)
(* C9: the circular heuristic, one warning per unordered pair.              *)
(***************************************************************************)
\* The non-empty trimmed tokens a client requests.
RequestedSet(client) == Elements(filterNonEmpty(Tokens(client.RequestedTaskIDs)))

\* The unordered pairs of distinct tasks some client requests together.
RequestedPairs ==
    {pair \in SUBSET UNION {RequestedSet(clients[i]) : i \in 1..Len(clients)} :
         /\ Cardinality(pair) = 2
         /\ \E i \in 1..Len(clients) : pair \subseteq RequestedSet(clients[i])}

\* C9 as stated: the report has exactly one circular-dependency warning for
\* each such pair, in either order of its names, and no other.
C9_OneWarningPerPair ==
    outcome = "returned" =>
        /\ \A pair \in RequestedPairs :
               Len(SelectSeq(AggregateFindings(result, "RequestedTaskIDs"),
                             LAMBDA f : Elements(f.message.args) = pair)) = 1
        /\ \A k \in 1..Len(AggregateFindings(result, "RequestedTaskIDs")) :
               Elements(AggregateFindings(result, "RequestedTaskIDs")[k].message.args)
                   \in RequestedPairs

(***************************************************************************)
(* C10: skill coverage.                                                     *)
(***************************************************************************)
\* No worker's Skills contains the skill, case-insensitively.
NoWorkerContains(skill) ==
    \A j \in 1..Len(workers) :
        ~includes(toLowerCase(workers[j].Skills), toLowerCase(skill))

\* No trimmed, lower-cased token of a worker's Skills is the lower-cased skill.
NoWorkerToken(skill) ==
    \A j \in 1..Len(workers) :
        \A k \in 1..Len(split(workers[j].Skills, ",")) :
            mapTrimLower(split(workers[j].Skills, ","))[k] # toLowerCase(skill)

\* A warning on RequiredSkills of a task row for each of the skills, in order.
SkillWarnings(skills, row, tpl) ==
    [k \in 1..Len(skills) |->
        [entity |-> "task", field |-> "RequiredSkills", row |-> row,
         message |-> Msg(tpl, <<skills[k]>>), severity |-> "warning"]]

\* C10 as stated: a required skill no worker's Skills contains has one and
\* only one warning on RequiredSkills of the task row in the report, and a
\* skill some worker's Skills contains has none.
C10_OneWarningPerSkill ==
    outcome = "returned" =>
        \A i \in 1..Len(tasks) :
            \A skill \in Elements(filterNonEmpty(Tokens(tasks[i].RequiredSkills))) :
                Len(SelectSeq(FindingsOn(result, "task", i - 1, "RequiredSkills"),
                              LAMBDA f : /\ f.severity = "warning"
                                         /\ toLowerCase(f.message.args[1]) = toLowerCase(skill)))
                    = IF NoWorkerContains(skill) THEN 1 ELSE 0

\* C10, amended: the findings of the report on RequiredSkills of a task row
\* are warnings of two checks.  The task validator gives one 'No worker has
\* required skill' for each occurrence of a non-empty token that, trimmed
\* and lower-cased, is no token of any worker's Skills; the cross-reference
\* check gives one 'No worker available with skill' for each occurrence of a
\* non-empty token that no worker's Skills contains as a substring,
\* case-insensitively.  So a skill no worker's Skills contains has two
\* warnings, a skill that is only part of a worker's skill has one, and a
\* skill that is a worker's skill has none.
C10_SkillWarnings ==
    outcome = "returned" =>
        \A i \in 1..Len(tasks) :
            FindingsOn(StripIds(result), "task", i - 1, "RequiredSkills")
                = SkillWarnings(SelectSeq(mapTrimLower(split(tasks[i].RequiredSkills, ",")),
                                          LAMBDA t : Truthy(t) /\ NoWorkerToken(t)),
                                i - 1, "No worker has required skill: {0}")
                  \o SkillWarnings(SelectSeq(Tokens(tasks[i].RequiredSkills),
                                             LAMBDA t : Truthy(t) /\ NoWorkerContains(t)),
                                   i - 1, "No worker available with skill: {0}")

\* A report on a task that requires nobody's skill, with its two warnings,
\* and on a task that requires a part of a worker's skill, with its one.
C10_Witness ==
    /\ outcome = "returned"
    /\ Len(tasks) = 2 /\ Len(workers) > 0
    /\ tasks[1].RequiredSkills = <<"z">> /\ tasks[2].RequiredSkills = <<"a">>
    /\ Len(FindingsOn(result, "task", 0, "RequiredSkills")) = 2
    /\ Len(FindingsOn(result, "task", 1, "RequiredSkills")) = 1

(***************************************************************************)
(* Phase-set texts in every form the validators tell apart: bracketed       *)
(* range, range, bracketed array, comma list, single number, a range that   *)
(* runs backwards and a comma list with a word in it.                       *)
(***************************************************************************)
BracketRange234 == <<"[", "2", "-", "4", "]">>
Range234 == <<"2", "-", "4">>
Array234 == <<"[", "2", ",", "3", ",", "4", "]">>
List234 == <<"2", ",", "3", ",", "4">>
BracketRange42 == <<"[", "4", "-", "2", "]">>

Array11 == <<"[", "1", ",", "1", "]">>

Array10 == <<"[", "1", ",", "0", "]">>

FormTexts ==
    {BracketRange234, Range234, Array234, List234, BracketRange42, Array11, Array10,
     <<"3">>, <<"1", ",", "x">>, <<"0">>}

FormTasks == {Task(T1id, 2, Blank, t, 1) : t \in FormTexts}

FormWorkers == {Worker(W1id, <<"a">>, t, n, 5) : t \in FormTexts, n \in {1, 3}}

\* AttributesJSON: nothing, a space, an object, a number, an array, and four
\* texts that are no JSON: with a brace, with a bracket, plain, plain with a
\* comma.
AttrForms ==
    {Blank, <<" ">>, <<"{", "}">>, <<"7">>, <<"[", "1", "]">>,
     <<"{", "x">>, <<"x", "[">>, <<"a", "b">>, <<"a", ",", "b">>}

FormClients == {Client(C1id, 3, T1id, t) : t \in AttrForms}

InitForms ==
    \/ InitWith(SeqsUpTo(FormClients, MaxRows), ValidWorkers, ValidTasks, {CountingStream})
    \/ InitWith(ValidClients, ValidWorkers, SeqsUpTo(FormTasks, MaxRows), {CountingStream})
    \/ InitWith(ValidClients, SeqsUpTo(FormWorkers, MaxRows), ValidTasks, {CountingStream})

SpecForms == InitForms /\ [][Run]_vars

(***************************************************************************)
(* C11 as stated: as PreferredPhases of a task, [2-4], 2-4, [2,3,4] and     *)
(* 2,3,4 have no error finding and each adds the task's Duration to the     *)
(* demand of phases 2, 3 and 4 and of no other; [2,3,4] and 2,3,4 have a    *)
(* warning on PreferredPhases and the other two none; [4-2] has an error.   *)
(***************************************************************************)
C11_RoundTrip ==
    outcome = "returned" =>
        \A i \in 1..Len(tasks) :
            /\ tasks[i].PreferredPhases \in {BracketRange234, Range234, Array234, List234}
                   => /\ OfSeverity(FindingsOn(result, "task", i - 1, "PreferredPhases"),
                                    "error") = <<>>
                      /\ tasks[i].Duration > 0
                             => phaseDemandOf(<<tasks[i]>>)
                                    = [keys |-> <<2, 3, 4>>,
                                       val |-> <<tasks[i].Duration, tasks[i].Duration,
                                                 tasks[i].Duration>>]
                      /\ Len(OfSeverity(FindingsOn(result, "task", i - 1, "PreferredPhases"),
                                        "warning"))
                             = IF tasks[i].PreferredPhases \in {Array234, List234}
                               THEN 1 ELSE 0
            /\ tasks[i].PreferredPhases = BracketRange42
                   => Len(OfSeverity(FindingsOn(result, "task", i - 1, "PreferredPhases"),
                                     "error")) = 1

(***************************************************************************)
(* One DataValidator used again and again while the page replaces its       *)
(* collections between the invocations.                                     *)
(***************************************************************************)

UploadClients == ValidClients \cup FixedMixedClients

UploadWorkers == ValidWorkers \cup FixedMixedWorkers

UploadTasks == ValidTasks \cup FixedMixedTasks

\* handleDataUpload(data, type): the collection of that type is replaced.
\* The effect that follows the render arms the validation timer, or, when
\* all three collections are empty, empties the findings at once.
handleDataUploadFrom(CS, WS, TS) ==
    /\ \/ clients' \in CS \ {clients} /\ UNCHANGED <<workers, tasks>>
       \/ workers' \in WS \ {workers} /\ UNCHANGED <<clients, tasks>>
       \/ tasks' \in TS \ {tasks} /\ UNCHANGED <<clients, workers>>
    /\ validationErrors' = effectShows(clients', workers', tasks', validationErrors)
    /\ effectTimer' = armed(clients', workers', tasks')
    /\ UNCHANGED <<errors, result, outcome, calls, clock, rng, lists, returned,
                   activeTab, isExporting, exports, fixTimers>>

handleDataUpload == handleDataUploadFrom(UploadClients, UploadWorkers, UploadTasks)

InitInstance == InitWith(ValidClients, ValidWorkers, ValidTasks, {CountingStream})

SpecInstance == InitInstance /\ [][ValidateAll \/ handleDataUpload]_vars

\* The array the last completed invocation returned, as it is now.
LastReturned == lists[returned[Len(returned)]]

\* C12: an invocation of validateAll leaves the three collections as they
\* were (same records, same order, same field values), and the array it
\* returns is one no earlier invocation returned; every array an earlier
\* invocation returned holds after it exactly what it held before it.
C12_PureAndFresh ==
    [][calls' = calls + 1 =>
          /\ <<clients', workers', tasks'>> = <<clients, workers, tasks>>
          /\ Len(returned') = Len(returned) + 1
          /\ \A k \in 1..Len(returned) :
                 /\ returned'[k] = returned[k]
                 /\ returned'[Len(returned')] # returned[k]
                 /\ lists'[returned[k]] = lists[returned[k]]]_vars

\* Two invocations have returned; the first array holds findings still, and
\* the second report differs from it in more than the identifiers.
C12_Witness ==
    /\ calls = 2 /\ Len(returned) = 2
    /\ lists[returned[1]] # <<>>
    /\ StripIds(lists[returned[1]]) # StripIds(LastReturned)
    /\ \E i \in 1..Len(clients) : clients[i].PriorityLevel = 6

\* C13: on one DataValidator, used for one input after another, every
\* invocation returns the findings a new DataValidator reports for the
\* collections it was given, no more and no fewer, and the reports of the
\* invocations before it stay what they were.
C13_OwnFindingsOnly ==
    [][calls' = calls + 1 =>
          /\ outcome' = "returned"
          /\ StripIds(lists'[returned'[Len(returned')]])
                 = StripIds(validateAll(<<>>, clients, workers, tasks,
                                        [now |-> clock, rng |-> rng]).errors)
          /\ \A k \in 1..Len(returned) :
                 StripIds(lists'[returned'[k]]) = StripIds(lists[returned[k]])]_vars

\* The first invocation reported findings on the clients, workers and tasks
\* of the mixed collections; the second was given the other collections and
\* its report has none of those.
C13_Witness ==
    /\ calls = 2 /\ Len(returned) = 2
    /\ \A e \in {"client", "worker", "task"} :
           /\ \E i \in 1..Len(lists[returned[1]]) :
                  lists[returned[1]][i].entity = e /\ lists[returned[1]][i].row >= 0
           /\ \A i \in 1..Len(LastReturned) :
                  LastReturned[i].entity = e => LastReturned[i].row < 0
    /\ clients \in ValidClients /\ workers \in ValidWorkers /\ tasks \in ValidTasks


\* C14: in a list validateAll returns no two findings have the same id,
\* whatever the collections, the instant and the values Math.random() returns.
C14_UniqueIds ==
    outcome = "returned" =>
        \A i \in 1..Len(result) : \A j \in 1..Len(result) :
            i # j => result[i].id # result[j].id


(***************************************************************************)
(* The page: uploads, the validation its effect runs, the tabs, and the     *)
(* export panel of the Export tab.                                          *)
(***************************************************************************)

MaxExports == 1

TabKeys == {"upload", "data", "rules", "prioritization", "export"}

PageClients == {<<>>} \cup ValidClients

PageWorkers == {<<>>} \cup ValidWorkers

PageTasks == {<<>>} \cup ValidTasks

PageUpload == handleDataUploadFrom(PageClients, PageWorkers, PageTasks)

\* What a callback of the page does with the report of the validator of its
\* render: setValidationErrors(errors); the render that follows runs the
\* effect again.
setValidationErrors(r) ==
    /\ rng' = Rotate(rng, Len(r.errors))
    /\ validationErrors' = IF r.thrown THEN validationErrors
                           ELSE effectShows(clients, workers, tasks, r.errors)
    /\ effectTimer' = armed(clients, workers, tasks)
    /\ UNCHANGED <<errors, result, outcome, calls, lists, returned>>

\* const errors = validator.validateAll(clients, workers, tasks);
\* setValidationErrors(errors), for the collections and the validator of one
\* render.
forceRevalidation(seen) ==
    setValidationErrors(validateAll(<<>>, seen.clients, seen.workers, seen.tasks,
                                    [now |-> clock, rng |-> rng]))

\* The timer of the effect is set by the render that follows the click of a
\* fix, after the timer of the fix, and for 500 ms: it fires after every
\* timer of 100 ms that is waiting.
timerDue ==
    /\ effectTimer # <<>>
    /\ \A k \in 1..Len(fixTimers) : fixTimers[k].delay > 500

\* The timer of the validation effect fires: the collections are validated
\* and the findings shown.  The effect depends on the validator, which is a
\* new object at every render, so the timer is armed again after every render
\* for as long as a collection has records.
validateData ==
    /\ timerDue
    /\ forceRevalidation(Head(effectTimer))
    /\ UNCHANGED <<clients, workers, tasks, clock, activeTab, isExporting, exports,
                   fixTimers>>

\* A tab button is clicked.  The export panel is mounted on the Export tab
\* only, so its state starts anew when the tab is left.
setActiveTabTo(keys) ==
    /\ \E tab \in keys \ {activeTab} :
           /\ activeTab' = tab
           /\ isExporting' = IF activeTab = "export" THEN FALSE ELSE isExporting
    /\ effectTimer' = armed(clients, workers, tasks)
    /\ UNCHANGED <<clients, workers, tasks, errors, result, outcome, calls, clock, rng,
                   lists, returned, validationErrors, exports, fixTimers>>

setActiveTab == setActiveTabTo(TabKeys)

\* disabled={isExporting || (clients.length === 0 && workers.length === 0 &&
\*           tasks.length === 0)}
exportEnabled ==
    /\ activeTab = "export"
    /\ ~isExporting
    /\ ~(Len(clients) = 0 /\ Len(workers) = 0 /\ Len(tasks) = 0)

\* The Export Data button is clicked: the files are written.
exportData ==
    /\ exportEnabled
    /\ exports < MaxExports
    /\ isExporting' = TRUE
    /\ exports' = exports + 1
    /\ UNCHANGED <<clients, workers, tasks, errors, result, outcome, calls, clock, rng,
                   lists, returned, validationErrors, activeTab, fixTimers, effectTimer>>

\* finally { setIsExporting(false) }
exportDataFinally ==
    /\ isExporting
    /\ isExporting' = FALSE
    /\ UNCHANGED <<clients, workers, tasks, errors, result, outcome, calls, clock, rng,
                   lists, returned, validationErrors, activeTab, exports, fixTimers,
                   effectTimer>>

InitPage == InitWith({<<>>}, {<<>>}, {<<>>}, {CountingStream})

PageNext == PageUpload \/ validateData \/ setActiveTab \/ exportData \/ exportDataFinally

SpecPage == InitPage /\ [][PageNext]_vars

\* C15: whenever the export panel writes its files, the findings the page
\* holds are none.
C15_ExportGated ==
    [][exports' = exports + 1 => validationErrors = <<>>]_vars


(***************************************************************************)
(* C16: AttributesJSON.  A client whose AttributesJSON is blank, or is text  *)
(* JSON.parse accepts, has no finding on that field; a client whose          *)
(* AttributesJSON JSON.parse rejects has exactly one, an error if the text   *)
(* contains a brace or a bracket and a warning otherwise.                    *)
(***************************************************************************)
BlankText(text) == \A k \in 1..Len(text) : text[k] = " "

HasBraceOrBracket(text) == \E k \in 1..Len(text) : text[k] \in {"{", "["}

AttributesClassified(list, cs) ==
    \A i \in 1..Len(cs) :
        IF BlankText(cs[i].AttributesJSON) \/ JSONparse(cs[i].AttributesJSON).t # "throw"
        THEN FindingsOn(list, "client", i - 1, "AttributesJSON") = <<>>
        ELSE /\ Len(FindingsOn(list, "client", i - 1, "AttributesJSON")) = 1
             /\ FindingsOn(list, "client", i - 1, "AttributesJSON")[1].severity
                    = IF HasBraceOrBracket(cs[i].AttributesJSON) THEN "error" ELSE "warning"

C16_AttributesJSON == outcome = "returned" => AttributesClassified(result, clients)

\* A report on a client whose AttributesJSON is malformed JSON and one whose
\* AttributesJSON is plain text: an error and a warning.
C16_Witness ==
    /\ outcome = "returned"
    /\ Len(clients) = 2
    /\ clients[1].AttributesJSON = <<"x", "[">>
    /\ clients[2].AttributesJSON = <<"a", ",", "b">>
    /\ Len(OfSeverity(FindingsOn(result, "client", 0, "AttributesJSON"), "error")) = 1
    /\ Len(OfSeverity(FindingsOn(result, "client", 1, "AttributesJSON"), "warning")) = 1


(***************************************************************************)
(* AvailableSlots in the forms of a phase set.                              *)
(***************************************************************************)
\* The texts above that denote a set of positive integers, and the set.
AcceptedForms == {BracketRange234, Range234, Array234, List234, Array11, <<"3">>}

FormPhases(text) ==
    CASE text \in {BracketRange234, Range234, Array234, List234} -> {2, 3, 4}
      [] text = Array11 -> {1}
      [] text = <<"3">> -> {3}
      [] OTHER -> {}

\* The texts above that denote none: a range from 4 down to 2, a list with
\* a token that is no number.
RejectedForms == {BracketRange42, <<"1", ",", "x">>}

\* C17: a worker whose AvailableSlots is a bracketed range, a bracketed
\* array, a plain range, a comma list or a single positive integer has no
\* finding of severity error on AvailableSlots.
C17_SlotsAcceptedForms ==
    outcome = "returned" =>
        \A i \in 1..Len(workers) :
            workers[i].AvailableSlots \in AcceptedForms
                => OfSeverity(FindingsOn(result, "worker", i - 1, "AvailableSlots"), "error") = <<>>

\* C18: a worker whose AvailableSlots is not blank and denotes no set of
\* positive integers has a finding of severity error on AvailableSlots.
C18_SlotsRejectedIsError ==
    outcome = "returned" =>
        \A i \in 1..Len(workers) :
            workers[i].AvailableSlots \in RejectedForms
                => OfSeverity(FindingsOn(result, "worker", i - 1, "AvailableSlots"), "error") # <<>>

\* The warnings 'Worker has more available slots than max load per phase' of
\* a row.
OverloadWarnings(list, row) ==
    SelectSeq(FindingsOn(list, "worker", row, "MaxLoadPerPhase"),
              LAMBDA f : f.severity = "warning"
                         /\ f.message.tpl = "Worker has more available slots than max load per phase")

\* C19: a worker whose AvailableSlots denotes a phase set has exactly one
\* overload warning if the set has more phases than MaxLoadPerPhase and none
\* otherwise; a worker whose AvailableSlots is blank or denotes no phase set
\* has none.
C19_OverloadWarning ==
    outcome = "returned" =>
        \A i \in 1..Len(workers) :
            Len(OverloadWarnings(result, i - 1))
                = IF workers[i].AvailableSlots \in AcceptedForms
                     /\ Cardinality(FormPhases(workers[i].AvailableSlots)) > workers[i].MaxLoadPerPhase
                  THEN 1 ELSE 0


(***************************************************************************)
(* C20: the skill check of the task validator.                              *)
(***************************************************************************)
\* The findings of the task validator's skill check on a task row.
RequiredSkillFindings(list, row) ==
    SelectSeq(FindingsOn(StripIds(list), "task", row, "RequiredSkills"),
              LAMBDA f : f.message.tpl = "No worker has required skill: {0}")

\* The trimmed, lower-cased tokens of a RequiredSkills text.
SkillTokens(text) == mapTrimLower(split(text, ","))

\* C20 as stated: for a task with RequiredSkills, the skill check reports
\* each of the trimmed, lower-cased tokens that is no skill token of any
\* worker, in order and once for each occurrence, as a warning, and reports
\* nothing else.
C20_EveryAbsentToken ==
    outcome = "returned" =>
        \A i \in 1..Len(tasks) :
            Truthy(tasks[i].RequiredSkills) =>
                RequiredSkillFindings(result, i - 1)
                    = SkillWarnings(SelectSeq(SkillTokens(tasks[i].RequiredSkills), NoWorkerToken),
                                    i - 1, "No worker has required skill: {0}")

\* C20, amended: the same of the tokens that are not empty; a token that is
\* empty after trimming is not reported.
C20_AbsentNonEmptyTokens ==
    outcome = "returned" =>
        \A i \in 1..Len(tasks) :
            RequiredSkillFindings(result, i - 1)
                = SkillWarnings(SelectSeq(SkillTokens(tasks[i].RequiredSkills),
                                          LAMBDA t : Truthy(t) /\ NoWorkerToken(t)),
                                i - 1, "No worker has required skill: {0}")

\* A report on a task that requires nobody's skill and a skill of a worker
\* in another case, and on a task whose list ends in a comma: one warning,
\* on the first.
C20_Witness ==
    /\ outcome = "returned"
    /\ Len(tasks) = 2 /\ Len(workers) = 2
    /\ tasks[1].RequiredSkills = <<"Z", ",", " ", "A", "B">>
    /\ tasks[2].RequiredSkills = <<"A", "b", ",", " ">>
    /\ Len(RequiredSkillFindings(result, 0)) = 1
    /\ RequiredSkillFindings(result, 0)[1].severity = "warning"
    /\ RequiredSkillFindings(result, 0)[1].message.args = <<<<"z">>>>
    /\ RequiredSkillFindings(result, 1) = <<>>


(***************************************************************************)
(* C21: the format advisory on PreferredPhases.                             *)
(***************************************************************************)
\* Of the texts above: the comma list and the single integer that denote
\* phases, and the bracketed range, arrays and range that do.
AdvisoryForms == {List234, <<"3">>}

SilentForms == {BracketRange234, Range234, Array234, Array11}

\* The findings of the task validator on PreferredPhases of a task row.
PhaseFindings(list, row) == FindingsOn(StripIds(list), "task", row, "PreferredPhases")

C22_SaturationUsesAccepted ==
    outcome = "returned" =>
        /\ \A i \in 1..Len(tasks) :
               IF OfSeverity(PhaseFindings(result, i - 1), "error") # <<>>
               THEN phaseDemandOf(<<tasks[i]>>) = EmptyMap
               ELSE (tasks[i].Duration > 0 /\ ~BlankText(tasks[i].PreferredPhases))
                        => phaseDemandOf(<<tasks[i]>>) # EmptyMap
        /\ \A i \in 1..Len(workers) :
               IF OfSeverity(FindingsOn(result, "worker", i - 1, "AvailableSlots"), "error") # <<>>
               THEN phaseCapacityOf(<<workers[i]>>) = EmptyMap
               ELSE ~BlankText(workers[i].AvailableSlots)
                        => phaseCapacityOf(<<workers[i]>>) # EmptyMap


(***************************************************************************)
(* C23: what one record adds to the demand or capacity of a phase.          *)
(***************************************************************************)
\* C23: a task with a duration whose PreferredPhases is an array of positive
\* integers adds its Duration, once, to the demand of each phase the array
\* names, and a worker whose AvailableSlots is such an array adds its
\* MaxLoadPerPhase, once, to the capacity of each phase the array names, also
\* when the array names a phase more than once.
C23_ContributesOncePerPhase ==
    outcome = "returned" =>
        /\ \A i \in 1..Len(tasks) :
               (tasks[i].Duration > 0 /\ PhaseArray(tasks[i].PreferredPhases)) =>
                   \A p \in PhaseSet(tasks[i].PreferredPhases) :
                       MapGetOrZero(phaseDemandOf(<<tasks[i]>>), p) = tasks[i].Duration
        /\ \A i \in 1..Len(workers) :
               PhaseArray(workers[i].AvailableSlots) =>
                   \A p \in PhaseSet(workers[i].AvailableSlots) :
                       MapGetOrZero(phaseCapacityOf(<<workers[i]>>), p)
                           = workers[i].MaxLoadPerPhase


(***************************************************************************)
(* Auto-Fix (AutoFixPanel.autoFixData): what it makes of a client, a task   *)
(* and a worker.                                                            *)
(***************************************************************************)
\* Array.prototype.join
RECURSIVE join(_, _)
join(parts, sep) ==
    IF parts = <<>> THEN <<>>
    ELSE IF Len(parts) = 1 THEN parts[1]
    ELSE parts[1] \o sep \o join(Tail(parts), sep)

\* JSON.stringify of an array of integers: [2,3,4]
stringifyNumbers(ns) ==
    <<"[">> \o join([k \in 1..Len(ns) |-> IntToString(ns[k])], <<",">>) \o <<"]">>

\* The characters of a string as JSON.stringify writes them between quotes.
RECURSIVE escapeJson(_)
escapeJson(text) ==
    IF text = <<>> THEN <<>>
    ELSE (IF Head(text) \in {"\"", "\\"} THEN <<"\\", Head(text)>> ELSE <<Head(text)>>)
         \o escapeJson(Tail(text))

\* JSON.stringify({ key: text })
stringifyMember(key, text) ==
    <<"{", "\"">> \o key \o <<"\"", ":", "\"">> \o escapeJson(text) \o <<"\"", "}">>

\* .replace(/'/g, '"'), followed by the two replaces that put quotes around
\* the key before a colon and the value after one: no text of the model holds
\* a colon, and there they find nothing to replace.
repairJson(text) == [i \in 1..Len(text) |-> IF text[i] = "'" THEN "\"" ELSE text[i]]

\* convertAttributes with the repaired text taken as it is, without the
\* second JSON.parse.
convertAttributesUnchecked(text, fixedJson) ==
    IF ~includes(text, <<"{">>) /\ ~includes(text, <<"[">>)
    THEN stringifyMember(<<"m", "e", "s", "s", "a", "g", "e">>, text)
    ELSE fixedJson

\* The catch of JSON.parse(fixed.AttributesJSON).
convertAttributes(text, fixedJson) ==
    IF ~includes(text, <<"{">>) /\ ~includes(text, <<"[">>)
    THEN stringifyMember(<<"m", "e", "s", "s", "a", "g", "e">>, text)
    ELSE IF JSONparse(fixedJson).t # "throw"
    THEN fixedJson
    ELSE stringifyMember(<<"o", "r", "i", "g", "i", "n", "a", "l", "D", "a", "t", "a">>, text)

fixAttributesJSON(text) ==
    IF Truthy(text) /\ Truthy(trim(text)) /\ JSONparse(text).t = "throw"
    THEN convertAttributes(text, repairJson(text))
    ELSE text

\* validIds.length !== requestedIds.length
keepValidIds(text, requestedIds, validIds) ==
    IF Len(validIds) # Len(requestedIds) THEN join(validIds, <<",", " ">>) ELSE text

validIdsOf(requestedIds, allTaskIds) ==
    SelectSeq(requestedIds, LAMBDA id : Truthy(id) /\ id \in allTaskIds)

fixRequestedTaskIDs(text, allTaskIds) ==
    IF Truthy(text)
    THEN keepValidIds(text, mapTrim(split(text, ",")),
                      validIdsOf(mapTrim(split(text, ",")), allTaskIds))
    ELSE text

fixClient(client, allTaskIds) ==
    [client EXCEPT !.AttributesJSON = fixAttributesJSON(@),
                   !.RequestedTaskIDs = fixRequestedTaskIDs(@, allTaskIds)]

\* A range start-end turned into an array, when start and end are numbers,
\* start <= end and start > 0.
fixRange(text, parts) ==
    IF Len(parts) = 2
       /\ ~isNaN(parseInt(parts[1])) /\ ~isNaN(parseInt(parts[2]))
       /\ parseInt(parts[1]).n <= parseInt(parts[2]).n /\ parseInt(parts[1]).n > 0
    THEN stringifyNumbers(rangeNumbers(parseInt(parts[1]).n, parseInt(parts[2]).n))
    ELSE text

\* A list of numbers turned into the array of its positive numbers, if any.
fixList(text, values) ==
    IF Len(values) > 0 THEN stringifyNumbers(values) ELSE text

\* phases is the trimmed field, innerContent what its brackets hold.
fixBracketed(text, phases, innerContent) ==
    IF includes(innerContent, <<"-">>)
    THEN fixRange(text, mapTrim(split(innerContent, "-")))
    ELSE IF JSONparse(phases).t # "throw"
    THEN text
    ELSE fixList(text, positiveInts(mapParseInt(split(innerContent, ","))))

fixPhases(text, phases) ==
    IF startsWith(phases, "[") /\ endsWith(phases, "]")
    THEN fixBracketed(text, phases, trim(SubSeq(phases, 2, Len(phases) - 1)))
    ELSE IF includes(phases, <<"-">>) /\ ~includes(phases, <<"[">>)
    THEN fixRange(text, mapTrim(split(phases, "-")))
    ELSE IF includes(phases, <<",">>) /\ ~startsWith(phases, "[")
    THEN fixList(text, positiveInts(mapParseInt(split(phases, ","))))
    ELSE IF AllDigits(phases)
    THEN stringifyNumbers(<<parseInt(phases).n>>)
    ELSE text

fixPreferredPhases(text) ==
    IF Truthy(text) /\ Truthy(trim(text)) THEN fixPhases(text, trim(text)) ELSE text

fixTask(task) == [task EXCEPT !.PreferredPhases = fixPreferredPhases(@)]

\* The catch of JSON.parse(fixed.AvailableSlots); slots is the trimmed field.
convertSlots(text, slots) ==
    IF includes(slots, <<",">>)
    THEN fixList(text, positiveInts(mapParseInt(split(slots, ","))))
    ELSE IF AllDigits(slots)
    THEN stringifyNumbers(<<parseInt(slots).n>>)
    ELSE text

fixAvailableSlots(text) ==
    IF Truthy(text) /\ Truthy(trim(text)) /\ JSONparse(text).t = "throw"
    THEN convertSlots(text, trim(text))
    ELSE text

\* JSON.parse(fixed.AvailableSlots || '[]'), and MaxLoadPerPhase raised to
\* the length of the array.
fixMaxLoad(maxLoad, availableSlots) ==
    IF isArray(availableSlots) /\ Len(availableSlots.v) > maxLoad
    THEN Len(availableSlots.v)
    ELSE maxLoad

fixWorker(worker) ==
    [worker EXCEPT !.AvailableSlots = fixAvailableSlots(@),
                   !.MaxLoadPerPhase =
                        fixMaxLoad(@, IF Truthy(fixAvailableSlots(worker.AvailableSlots))
                                      THEN JSONparse(fixAvailableSlots(worker.AvailableSlots))
                                      ELSE [t |-> "arr", v |-> <<>>])]

fixedClients(cs, ts) ==
    [i \in 1..Len(cs) |-> fixClient(cs[i], {ts[j].TaskID : j \in 1..Len(ts)})]

fixedTasks(ts) == [i \in 1..Len(ts) |-> fixTask(ts[i])]

fixedWorkers(ws) == [i \in 1..Len(ws) |-> fixWorker(ws[i])]


MaxFixes == 1

\* The Auto-Fix Issues button is clicked: the three collections are replaced
\* by the fixed ones, and a timer is set for onFixComplete, which is the
\* forceRevalidation of the render the button was clicked in.
autoFixData ==
    /\ activeTab = "upload"
    /\ Len(clients) + Len(workers) + Len(tasks) > 0
    /\ Len(fixTimers) < MaxFixes
    /\ clients' = fixedClients(clients, tasks)
    /\ workers' = fixedWorkers(workers)
    /\ tasks' = fixedTasks(tasks)
    /\ fixTimers' = Append(fixTimers, Timer(clients, workers, tasks, 100))
    /\ effectTimer' = armed(clients', workers', tasks')
    /\ UNCHANGED <<errors, result, outcome, calls, clock, rng, lists, returned,
                   validationErrors, activeTab, isExporting, exports>>

\* A sequence without its k-th element.
Without(seq, k) == SubSeq(seq, 1, k - 1) \o SubSeq(seq, k + 1, Len(seq))

\* The timer of a fix fires: one that no timer set before it with a delay no
\* longer than its own is still waiting before.
onFixComplete ==
    /\ \E k \in 1..Len(fixTimers) :
           /\ \A j \in 1..(k - 1) : fixTimers[j].delay > fixTimers[k].delay
           /\ forceRevalidation(fixTimers[k])
           /\ fixTimers' = Without(fixTimers, k)
    /\ UNCHANGED <<clients, workers, tasks, clock, activeTab, isExporting, exports>>

\* PreferredPhases to fix: the forms above, a list and an array with a word.
List2x3 == <<"2", ",", "x", ",", "3">>

Array2x == <<"[", "2", ",", "x", "]">>

FixTasks == {Task(T1id, 2, Blank, t, 1) : t \in FormTexts \cup {List2x3, Array2x}}

\* AttributesJSON to fix, of a client that requests a task that exists and
\* one that does not; requests to fix.
FixClients ==
    {Client(C1id, 3, <<"T", "1", ",", "T", "9">>, t) :
         t \in {Blank, <<"[", "1", "]">>, <<"a", "b">>, <<"{", "x">>, <<"x", "[">>,
                <<"[", "'", "a", "'", "]">>}}
    \cup {Client(C1id, 3, t, Blank) :
              t \in {<<"T", "9">>, <<"T", "1", ",", ",", "T", "2">>, <<"T", "2", ",", " ", "T", "1">>}}

FixWorkers ==
    {Worker(W1id, <<"a">>, t, 1, 5) :
         t \in {Range234, Array234, List234, Array10, <<"3">>, <<"1", ",", "x">>}}

InitFix ==
    \/ InitWith(SeqsUpTo(FixClients, MaxRows), ValidWorkers, ValidTasks, {CountingStream})
    \/ InitWith(ValidClients, ValidWorkers, SeqsUpTo(FixTasks, MaxRows), {CountingStream})
    \/ InitWith(ValidClients, SeqsUpTo(FixWorkers, MaxRows), ValidTasks, {CountingStream})

FixNext == autoFixData \/ onFixComplete \/ validateData

SpecFix == InitFix /\ [][FixNext]_vars


\* The collections the latest fix was applied to.
BeforeFix == fixTimers[Len(fixTimers)]

\* The findings of severity error of the task validator on a PreferredPhases.
PhaseErrors(task) ==
    OfSeverity(checkPreferredPhases(<<>>, task, 0, [now |-> clock, rng |-> rng]), "error")

\* The findings of the task validator on a PreferredPhases.
PhaseAdvice(task) == checkPreferredPhases(<<>>, task, 0, [now |-> clock, rng |-> rng])

\* A text that JSON.parse reads as an array of numbers.
IsNumberArray(text) ==
    /\ JSONparse(text).t = "arr"
    /\ \A k \in 1..Len(JSONparse(text).v) : JSONparse(text).v[k].t = "num"

\* C24: Auto-Fix rewrites a task's PreferredPhases only when the validator
\* has no error for the value it had, and then the value is a JSON array of
\* numbers that denotes the phases the old value denoted and has no finding
\* of the validator; a value the validator has an error for is not turned
\* into one it has none for.
C24_FixAgreesWithValidator ==
    Len(fixTimers) > 0 =>
        \A i \in 1..Len(tasks) :
            /\ tasks[i].PreferredPhases # BeforeFix.tasks[i].PreferredPhases
                   => PhaseErrors(BeforeFix.tasks[i]) = <<>>
            /\ PhaseErrors(BeforeFix.tasks[i]) = <<>>
                   => /\ IsNumberArray(tasks[i].PreferredPhases)
                      /\ PhaseSet(tasks[i].PreferredPhases)
                             = FormPhases(BeforeFix.tasks[i].PreferredPhases)
                      /\ PhaseAdvice(tasks[i]) = <<>>
            /\ PhaseErrors(BeforeFix.tasks[i]) # <<>> => PhaseErrors(tasks[i]) # <<>>


\* What validateClients reports for the clients and tasks of the page.
ClientFindings ==
    StripIds(validateClients(<<>>, clients, tasks, [now |-> clock, rng |-> rng]).errors)

\* C25: after Auto-Fix, the client validator has no finding on AttributesJSON
\* and no finding 'Unknown task ID' for the collections of the page, and
\* Auto-Fix applied to them gives the same collections.
C25_FixPostcondition ==
    Len(fixTimers) > 0 =>
        /\ \A k \in 1..Len(ClientFindings) :
               /\ ClientFindings[k].field # "AttributesJSON"
               /\ ClientFindings[k].message.tpl # "Unknown task ID: {0}"
        /\ fixedClients(clients, tasks) = clients
        /\ fixedWorkers(workers) = workers
        /\ fixedTasks(tasks) = tasks

\* A client whose AttributesJSON was the malformed '{x' and whose requests
\* named the task T9 that does not exist, after Auto-Fix: the text is wrapped
\* in an object and the request for T9 is gone.
C25_Witness ==
    /\ Len(fixTimers) > 0
    /\ Len(clients) = 1
    /\ BeforeFix.clients[1].AttributesJSON = <<"{", "x">>
    /\ BeforeFix.clients[1].RequestedTaskIDs = <<"T", "1", ",", "T", "9">>
    /\ clients[1].RequestedTaskIDs = <<"T", "1">>
    /\ JSONparse(clients[1].AttributesJSON).t = "obj"



(***************************************************************************)
(* The page with its fixes and the grid: what the findings shown are the    *)
(* findings of.                                                             *)
(***************************************************************************)
\* availableSlots.includes(4), and the load raised by one, up to 6.
raisedLoad(maxLoad, availableSlots) ==
    IF isArray(availableSlots)
       /\ (\E k \in 1..Len(availableSlots.v) : availableSlots.v[k] = [t |-> "num", v |-> 4])
       /\ maxLoad < 6
    THEN IF maxLoad + 1 < 6 THEN maxLoad + 1 ELSE 6
    ELSE maxLoad

quickFixWorker(worker) ==
    [worker EXCEPT !.MaxLoadPerPhase =
        raisedLoad(@, IF Truthy(worker.AvailableSlots)
                      THEN JSONparse(worker.AvailableSlots)
                      ELSE [t |-> "arr", v |-> <<>>])]

\* validationErrors.filter(error => error.message.includes('oversaturated'))
oversaturationErrors(shown) ==
    SelectSeq(shown, LAMBDA f :
        f.message.tpl = "Phase {0} is oversaturated: demand ({1}) exceeds capacity ({2})")

\* The Quick Fix button, which is there while a finding of oversaturation is
\* shown, is clicked: the workers are replaced and a timer is set for
\* onFixComplete, the forceRevalidation of the render of the click.
fixOversaturation ==
    /\ activeTab = "upload"
    /\ oversaturationErrors(validationErrors) # <<>>
    /\ Len(fixTimers) < MaxFixes
    /\ workers' = [i \in 1..Len(workers) |-> quickFixWorker(workers[i])]
    /\ fixTimers' = Append(fixTimers, Timer(clients, workers, tasks, 2000))
    /\ effectTimer' = armed(clients, workers', tasks)
    /\ UNCHANGED <<clients, tasks, errors, result, outcome, calls, clock, rng, lists,
                   returned, validationErrors, activeTab, isExporting, exports>>

\* The texts typed into a cell of the grid.
CellTexts == {<<"4">>, <<"4", ",", "x">>}

\* A cell of the PreferredPhases column of the tasks grid is saved:
\* onDataChange('tasks', newData).
handleCellEdit ==
    /\ activeTab = "data"
    /\ \E rowIndex \in 1..Len(tasks) : \E value \in CellTexts :
           /\ value # tasks[rowIndex].PreferredPhases
           /\ tasks' = [tasks EXCEPT ![rowIndex].PreferredPhases = value]
    /\ effectTimer' = armed(clients, workers, tasks')
    /\ UNCHANGED <<clients, workers, errors, result, outcome, calls, clock, rng, lists,
                   returned, validationErrors, activeTab, isExporting, exports, fixTimers>>

\* The files uploaded: a worker of phase 4 with a load of five, a task of
\* duration six for phase 4 and a word.
EffectClients == {<<>>}

EffectWorkers == {<<>>, <<Worker(W1id, <<"a">>, <<"[", "4", "]">>, 5, 5)>>}

EffectTasks == {<<>>, <<Task(T1id, 6, Blank, <<"4", ",", "x">>, 1)>>}

EffectUpload == handleDataUploadFrom(EffectClients, EffectWorkers, EffectTasks)

\* The Upload tab holds the fixes and the Data tab the grid.
EffectTab == setActiveTabTo({"upload", "data"})

EffectNext ==
    \/ EffectUpload
    \/ validateData
    \/ EffectTab
    \/ autoFixData
    \/ fixOversaturation
    \/ onFixComplete
    \/ handleCellEdit

SpecEffect == InitPage /\ [][EffectNext]_vars

\* The timers fire: weak fairness of validateData and of onFixComplete, with
\* what enables them written out.  A validation that leaves every variable as
\* it was is no step, and where that is all validateData can do the findings
\* shown are the findings of the collections already.
TimerFires ==
    /\ []<>(~timerDue) \/ []<><<validateData>>_vars
    /\ []<>(fixTimers = <<>>) \/ []<><<onFixComplete>>_vars

SpecLive == SpecEffect /\ TimerFires


\* What validateAll reports for the collections of the page, without the ids.
FindingsNow ==
    StripIds(validateAll(<<>>, clients, workers, tasks, [now |-> clock, rng |-> rng]).errors)

\* The findings shown are those of the collections of the page.
Fresh == StripIds(validationErrors) = FindingsNow

NoRecords == Len(clients) = 0 /\ Len(workers) = 0 /\ Len(tasks) = 0

\* A step of the timer of the effect: findings are stored, no collection is
\* replaced and no timer of a fix is used up.
DebounceStep ==
    /\ validationErrors' # validationErrors
    /\ <<clients', workers', tasks', fixTimers'>> = <<clients, workers, tasks, fixTimers>>

\* A step that replaces no collection and is no click of a fix.
Quiet ==
    /\ <<clients', workers', tasks'>> = <<clients, workers, tasks>>
    /\ Len(fixTimers') <= Len(fixTimers)

\* C26: if from some point on no collection is replaced and no fix is
\* clicked, then from some point on the findings shown are those validateAll
\* reports for the collections of the page; what the timer of the effect
\* stores is the report for the collections of the page as they are then,
\* the timer being the one of the latest render; and while no collection has
\* a record the findings shown are none.
C26_Debounced ==
    /\ <>[][Quiet]_vars => <>[]Fresh
    /\ [][DebounceStep => StripIds(validationErrors') = FindingsNow]_vars
    /\ [](effectTimer = armed(clients, workers, tasks))
    /\ [](NoRecords => validationErrors = <<>>)

\* The task was uploaded, its PreferredPhases was edited in the grid, and the
\* findings shown are those of the edited task.
C26_Witness ==
    /\ Fresh
    /\ Len(tasks) = 1
    /\ tasks[1].PreferredPhases = <<"4">>
    /\ validationErrors # <<>>


\* A timer of a fix fires.
FixTimerStep == Len(fixTimers') < Len(fixTimers)

\* C27: once the findings shown are those of the collections of the page, a
\* step that replaces no collection leaves them so; and what onFixComplete
\* stores when the timer of a fix fires is the report for the collections of
\* the page as they are then.
C27_NeverStale ==
    /\ [][Fresh /\ <<clients', workers', tasks'>> = <<clients, workers, tasks>>
              => StripIds(validationErrors') = FindingsNow]_vars
    /\ [][FixTimerStep => StripIds(validationErrors') = FindingsNow]_vars


\* C28: if from some point on no collection is replaced and no fix is
\* clicked, then from some point on the findings shown are not stored anew;
\* and the step in which the timer of the effect stores its report leaves no
\* timer of the effect set.
C28_Quiescent ==
    /\ <>[][Quiet]_vars => <>[][validationErrors' = validationErrors]_vars
    /\ [][DebounceStep => effectTimer' = <<>>]_vars



(***************************************************************************)
(* C29: the two skill checks.                                               *)
(***************************************************************************)
\* The findings of the skill coverage check on a task row.
CoverageFindings(list, row) ==
    SelectSeq(FindingsOn(StripIds(list), "task", row, "RequiredSkills"),
              LAMBDA f : f.message.tpl = "No worker available with skill: {0}")

\* C29: for every finding 'No worker available with skill' on a task row the
\* report has a finding 'No worker has required skill' on that row for the
\* same skill in lower case.
C29_CoverageSubsumed ==
    outcome = "returned" =>
        \A i \in 1..Len(tasks) :
            \A k \in 1..Len(CoverageFindings(result, i - 1)) :
                \E m \in 1..Len(RequiredSkillFindings(result, i - 1)) :
                    RequiredSkillFindings(result, i - 1)[m].message.args
                        = <<toLowerCase(CoverageFindings(result, i - 1)[k].message.args[1])>>

\* A report on a task that requires z, which no worker has, and a task that
\* requires a, which is part of the skill Ab of the worker: both findings on
\* the first row, and on the second the finding of the task check alone.
C29_Witness ==
    /\ outcome = "returned"
    /\ Len(tasks) = 2 /\ Len(workers) = 1
    /\ tasks[1].RequiredSkills = <<"z">>
    /\ tasks[2].RequiredSkills = <<"a">>
    /\ workers[1].Skills = <<"A", "b">>
    /\ Len(CoverageFindings(result, 0)) = 1
    /\ Len(RequiredSkillFindings(result, 0)) = 1
    /\ CoverageFindings(result, 1) = <<>>
    /\ Len(RequiredSkillFindings(result, 1)) = 1



(***************************************************************************)
(* C30: what a finding is a finding on.                                     *)
(***************************************************************************)
\* The attributes of the records of an entity kind.
AttributesOf(entity) ==
    CASE entity = "client" -> {"ClientID", "ClientName", "PriorityLevel", "RequestedTaskIDs",
                               "GroupTag", "AttributesJSON"}
      [] entity = "worker" -> {"WorkerID", "WorkerName", "Skills", "AvailableSlots",
                               "MaxLoadPerPhase", "WorkerGroup", "QualificationLevel"}
      [] entity = "task" -> {"TaskID", "TaskName", "Category", "Duration", "RequiredSkills",
                             "PreferredPhases", "MaxConcurrent"}
      [] OTHER -> {}

\* The number of records of an entity kind.
RecordsOf(entity) ==
    CASE entity = "client" -> Len(clients)
      [] entity = "worker" -> Len(workers)
      [] entity = "task" -> Len(tasks)
      [] OTHER -> 0

\* The row of a finding is -1 on a warning of saturation or of a circular
\* grouping, and the index of a record of its entity kind otherwise.
RowAddressed(f) ==
    IF f.row = -1
    THEN /\ f.severity = "warning"
         /\ f.message.tpl \in
                {"Phase {0} is oversaturated: demand ({1}) exceeds capacity ({2})",
                 "Potential circular dependency detected between {0} and {1}"}
    ELSE 0 <= f.row /\ f.row < RecordsOf(f.entity)

\* C30: in a list validateAll returns, the field of every finding is an
\* attribute of the entity kind the finding names, and its row is -1, on
\* warnings of saturation and of circular grouping only, or the index of a
\* record of that kind.
C30_WellAddressed ==
    outcome = "returned" =>
        \A k \in 1..Len(result) :
            /\ result[k].field \in AttributesOf(result[k].entity)
            /\ RowAddressed(result[k])

=============================================================================
